---------------------------- MODULE Spec2Model ----------------------------
(***************************************************************************)
(* Ray traversal of a 4-wide BVH with quad leaves: the Moeller-Trumbore    *)
(* quad kernels (single ray, ray packet, k-th ray of a packet), the hit    *)
(* records and their finalisation, the stack-item sorting networks and     *)
(* the traversal state machine that drives them.                           *)
(*                                                                         *)
(* Numbers: coordinates are integers, distances and barycentrics are exact *)
(* rationals <<n, d>> with d >= 0; <<1, 0>> is +inf and <<-1, 0>> is -inf. *)
(* The kernels compare T against absDen*t without dividing, as the source  *)
(* does, so the integer model follows the same inequalities.               *)
(***************************************************************************)
EXTENDS Integers, Sequences, FiniteSets, TLC

VARIABLES
  cull,       \* build flag RTCORE_BACKFACE_CULLING
  avx,        \* build flag __AVX__
  filterRej,  \* geometry ids whose intersection filter rejects a hit
  scene,      \* index of the acceleration structure being queried
  mode,       \* "intersect" or "occluded"
  ray,        \* the single ray of the query
  ray0,       \* copy of the ray as the caller handed it in
  cur,        \* node the traversal is at
  stack,      \* sequence of StackItem, top is the last element
  pc,         \* "descend", "leaf", "pop", "done"
  log,        \* events of the query so far
  run,        \* number of the query run on this ray copy (1 or 2)
  first,      \* ray contents at the end of the first run
  kbatch,     \* kernel harness: index of the primitive batch under test
  rayK,       \* kernel harness: the ray packet
  rayK0,      \* kernel harness: the packet as handed in
  validi,     \* kernel harness: active lanes of the packet on entry
  kop,        \* kernel harness: operation applied ("none" before)
  kout,       \* kernel harness: what the operation produced
  thr,        \* concurrent queries: per thread its mode, ray, node, stack, pc
  sortIn,     \* sort harness: the stack items handed to StackItem::sort
  sortOut,    \* sort harness: the items after the sort (<<>> before)
  img         \* renderer: image size, tile tasks run, pixel writes, rays per task

vars == <<cull, avx, filterRej, scene, mode, ray, ray0, cur, stack, pc, log,
          run, first, kbatch, rayK, rayK0, validi, kop, kout, thr, sortIn, sortOut, img>>

travVars == <<scene, mode, ray, ray0, cur, stack, pc, log, run, first>>
kernVars == <<kbatch, rayK, rayK0, validi, kop, kout>>

-----------------------------------------------------------------------------
(* Bounds of the model *)

\* packet width of the modelled RayK<K>
K == 2
\* largest finite tfar a caller hands in
MaxTFar == 3
\* BVH4Hair::maxDepth: depth the builder guarantees for a structure
maxDepth == 2
\* queries run one after the other on copies of one ray
MaxRuns == 2
\* Largest finite tNear of an item handed to a sort on its own.
MaxSortT == 2
\* threads that query one structure at the same time
NThreads == 2
\* tile width and height of the renderer (TILE_SIZE_X, TILE_SIZE_Y)
TILE_SIZE_X == 3
TILE_SIZE_Y == 2
\* largest image width and height rendered
MaxWidth == 7
MaxHeight == 5

\* quads per QuadMv<4> batch
M == 4

\* RTC_INVALID_GEOMETRY_ID, as a signed lane value
INVALID == -1

-----------------------------------------------------------------------------
(* Vector and rational arithmetic *)

Abs(x) == IF x < 0 THEN -x ELSE x

VSub(a, b) == <<a[1] - b[1], a[2] - b[2], a[3] - b[3]>>

Dot(a, b) == a[1] * b[1] + a[2] * b[2] + a[3] * b[3]

Cross(a, b) == <<a[2] * b[3] - a[3] * b[2],
                 a[3] * b[1] - a[1] * b[3],
                 a[1] * b[2] - a[2] * b[1]>>

VNeg(a) == <<-a[1], -a[2], -a[3]>>

Zero3 == <<0, 0, 0>>

PosInf == <<1, 0>>
NegInf == <<-1, 0>>

RatLess(a, b) ==
  IF a[2] = 0 /\ b[2] = 0 THEN a[1] < b[1]
  ELSE a[1] * b[2] < b[1] * a[2]

RatEq(a, b) == ~RatLess(a, b) /\ ~RatLess(b, a)

RatLeq(a, b) == ~RatLess(b, a)

RatMax(a, b) == IF RatLess(a, b) THEN b ELSE a

RatMin(a, b) == IF RatLess(b, a) THEN b ELSE a

\* TRUE for every value f.  It only directs the evaluation: TLC computes a
\* definition again at every application f[i] unless it already holds its
\* value, and comparing f makes it hold it.
Computed(f) == f = f

\* x ^ signmsk(den): flip the sign of x when den is negative
XorSgn(x, den) == IF den < 0 THEN -x ELSE x

-----------------------------------------------------------------------------
(* Hit records: QuadHitM and QuadHitK *)

\* The unfinalised hit of one lane, as the QuadHitM / QuadHitK constructors
\* store it.
QuadHit(U, V, T, absDen, Ng, flags) ==
  [U |-> U, V |-> V, T |-> T, absDen |-> absDen, flags |-> flags, tri_Ng |-> Ng]

\* QuadHitM::finalize with the second triangle's v left as it is in the build
\* without __AVX__ (a changed copy of QuadHitM_finalize, used to test that the
\* properties below depend on it).
QuadHitM_finalize_vKept(h) ==
  LET u  == <<h.U, h.absDen>>
      v  == <<h.V, h.absDen>>
      u1 == <<h.absDen - h.U, h.absDen>>
      v1 == <<h.absDen - h.V, h.absDen>>
  IN  IF ~avx
      THEN [vt  |-> <<h.T, h.absDen>>,
            vu  |-> IF h.flags THEN u1 ELSE u,
            vv  |-> v,
            vNg |-> h.tri_Ng]
      ELSE [vt  |-> <<h.T, h.absDen>>,
            vu  |-> IF h.flags THEN v1 ELSE u,
            vv  |-> IF h.flags THEN u1 ELSE v,
            vNg |-> IF h.flags THEN VNeg(h.tri_Ng) ELSE h.tri_Ng]

\* QuadHitM::finalize on one lane, in the build without __AVX__ and in the
\* build with it.  t, u, v are the quotients T/absDen, U/absDen, V/absDen and
\* 1-u is (absDen-U)/absDen.
QuadHitM_finalize(h) ==
  LET u  == <<h.U, h.absDen>>
      v  == <<h.V, h.absDen>>
      u1 == <<h.absDen - h.U, h.absDen>>
      v1 == <<h.absDen - h.V, h.absDen>>
  IN  IF ~avx
      THEN [vt  |-> <<h.T, h.absDen>>,
            vu  |-> IF h.flags THEN u1 ELSE u,
            vv  |-> IF h.flags THEN v1 ELSE v,
            vNg |-> h.tri_Ng]
      ELSE [vt  |-> <<h.T, h.absDen>>,
            vu  |-> IF h.flags THEN v1 ELSE u,
            vv  |-> IF h.flags THEN u1 ELSE v,
            vNg |-> IF h.flags THEN VNeg(h.tri_Ng) ELSE h.tri_Ng]

\* QuadHitK::operator() on one lane.
QuadHitK_call(h) ==
  LET u0 == <<h.U, h.absDen>>
      v0 == <<h.V, h.absDen>>
      u1 == <<h.absDen - h.U, h.absDen>>
      v1 == <<h.absDen - h.V, h.absDen>>
  IN  [vt  |-> <<h.T, h.absDen>>,
       vu  |-> IF h.flags THEN u1 ELSE u0,
       vv  |-> IF h.flags THEN v1 ELSE v0,
       vNg |-> h.tri_Ng]

-----------------------------------------------------------------------------
(* Moeller-Trumbore kernels *)

\* The per-lane quantities every kernel computes from the triangle
\* (v0, v1, v2) and the ray (org, dir): e1, e2, Ng, C, R, den, absDen and the
\* sign-folded U, V, T.
TriLane(org, dir, v0, v1, v2, flags) ==
  LET e1     == VSub(v0, v1)
      e2     == VSub(v2, v0)
      Ng     == Cross(e1, e2)
      C      == VSub(v0, org)
      R      == Cross(dir, C)
      den    == Dot(Ng, dir)
      absDen == Abs(den)
      U      == XorSgn(Dot(R, e2), den)
      V      == XorSgn(Dot(R, e1), den)
      T      == XorSgn(Dot(Ng, C), den)
  IN  [den |-> den, hit |-> QuadHit(U, V, T, absDen, Ng, flags)]

\* The den test with the culling flag ignored (a changed copy of DenTest).
DenTest_flagIgnored(c, den) == den # 0

\* The den test letting den = 0 pass (a changed copy of DenTest).
DenTest_zeroAllowed(c, den) == IF c THEN den >= 0 ELSE TRUE

\* The backface-culling test of a build: den > 0 when it is compiled with
\* RTCORE_BACKFACE_CULLING (c), den != 0 otherwise.
DenTest(c, den) == IF c THEN den > 0 ELSE den # 0

\* Single-ray edge tests: (den test) & U >= 0 & V >= 0 & U+V <= absDen.
EdgeTest1(c, l) ==
  /\ DenTest(c, l.den)
  /\ l.hit.U >= 0
  /\ l.hit.V >= 0
  /\ l.hit.U + l.hit.V <= l.hit.absDen

\* The single-ray depth test without its comparison against tfar (a changed
\* copy of DepthTest1).
DepthTest1_noFar(l, tnear, tfar) ==
  l.hit.T * tnear[2] > l.hit.absDen * tnear[1]

\* Single-ray depth test: T > absDen*tnear & T < absDen*tfar.
DepthTest1(l, tnear, tfar) ==
  /\ l.hit.T * tnear[2] > l.hit.absDen * tnear[1]
  /\ l.hit.T * tfar[2] < l.hit.absDen * tfar[1]

\* MoellerTrumboreIntersectorQuad1<M>::intersect up to the epilogue call:
\* tri maps each lane to its triangle and flag; the result is the mask
\* handed to the epilogue (empty: the kernel returned false before it) and
\* the hit.
MoellerTrumboreIntersectorQuad1(c, r, tri, lanes) ==
  LET l      == [i \in lanes |->
                   TriLane(r.org, r.dir, tri[i].v0, tri[i].v1, tri[i].v2, tri[i].flags)]
      valid0 == {i \in lanes : Computed(l) /\ EdgeTest1(c, l[i])}
      valid  == {i \in valid0 : DepthTest1(l[i], r.tnear, r.tfar)}
  IN  [valid |-> valid, hit |-> [i \in lanes |-> l[i].hit],
       den |-> [i \in lanes |-> l[i].den]]

\* Packet depth test: T >= absDen*tnear & absDen*tfar >= T.
DepthTestK(l, tnear, tfar) ==
  /\ l.hit.T * tnear[2] >= l.hit.absDen * tnear[1]
  /\ l.hit.absDen * tfar[1] >= l.hit.T * tfar[2]

\* MoellerTrumboreIntersectorQuadMvK::intersectK up to the epilogue call:
\* one triangle (v0, v1, v2) against the rays of the packet that are in
\* valid0.  The tests run in the source's order U, V, W, depth, den.
intersectK(c, valid0, rk, v0, v1, v2, flags) ==
  LET l  == [k \in 1..K |-> TriLane(rk[k].org, rk[k].dir, v0, v1, v2, flags)]
      vU == {k \in valid0 : Computed(rk) /\ Computed(l) /\ l[k].hit.U >= 0}
      vV == {k \in vU : l[k].hit.V >= 0}
      vW == {k \in vV : l[k].hit.absDen - l[k].hit.U - l[k].hit.V >= 0}
      vT == {k \in vW : DepthTestK(l[k], rk[k].tnear, rk[k].tfar)}
      vD == {k \in vT : DenTest(c, l[k].den)}
  IN  [valid |-> vD, hit |-> [k \in 1..K |-> l[k].hit],
       den |-> [k \in 1..K |-> l[k].den]]

\* k-th ray edge tests: (den test) & U >= 0 & V >= 0 & U+V <= absDen.
EdgeTestKth(c, l) ==
  /\ DenTest(c, l.den)
  /\ l.hit.U >= 0
  /\ l.hit.V >= 0
  /\ l.hit.U + l.hit.V <= l.hit.absDen

\* k-th ray depth test: T > absDen*tnear[k] & T < absDen*tfar[k].
DepthTestKth(l, tnear, tfar) ==
  /\ l.hit.T * tnear[2] > l.hit.absDen * tnear[1]
  /\ l.hit.T * tfar[2] < l.hit.absDen * tfar[1]

\* MoellerTrumboreIntersectorQuadMvK::intersect / intersect1: the k-th ray of
\* the packet against the lanes of tri, up to the epilogue call.
intersectKth(c, rk, k, tri, lanes) ==
  LET l      == [i \in lanes |->
                   TriLane(rk[k].org, rk[k].dir, tri[i].v0, tri[i].v1, tri[i].v2,
                           tri[i].flags)]
      valid0 == {i \in lanes : Computed(l) /\ EdgeTestKth(c, l[i])}
      valid  == {i \in valid0 : DepthTestKth(l[i], rk[k].tnear, rk[k].tfar)}
  IN  [valid |-> valid, hit |-> [i \in lanes |-> l[i].hit],
       den |-> [i \in lanes |-> l[i].den]]

-----------------------------------------------------------------------------
(* Primitive batches: QuadMv<M> *)

\* A quad as the builder receives it.
Quad(v0, v1, v2, v3, geomID, primID) ==
  [v0 |-> v0, v1 |-> v1, v2 |-> v2, v3 |-> v3, geomID |-> geomID, primID |-> primID]

\* A fill that repeats the last quad's vertices in the unused lanes (a
\* changed copy of QuadMv_fill).
QuadMv_fill_repeatLast(qs) ==
  LET q(i) == IF i <= Len(qs) THEN qs[i] ELSE qs[Len(qs)]
  IN  [v0      |-> [i \in 1..M |-> q(i).v0],
       v1      |-> [i \in 1..M |-> q(i).v1],
       v2      |-> [i \in 1..M |-> q(i).v2],
       v3      |-> [i \in 1..M |-> q(i).v3],
       geomIDs |-> [i \in 1..M |-> IF i <= Len(qs) THEN qs[i].geomID ELSE INVALID],
       primIDs |-> [i \in 1..M |-> IF i <= Len(qs) THEN qs[i].primID ELSE INVALID]]

\* QuadMv<M>::fill: the quads of qs in the first Len(qs) lanes; the lanes
\* after them hold zero vertices and the invalid ids.
QuadMv_fill(qs) ==
  [v0      |-> [i \in 1..M |-> IF i <= Len(qs) THEN qs[i].v0 ELSE Zero3],
   v1      |-> [i \in 1..M |-> IF i <= Len(qs) THEN qs[i].v1 ELSE Zero3],
   v2      |-> [i \in 1..M |-> IF i <= Len(qs) THEN qs[i].v2 ELSE Zero3],
   v3      |-> [i \in 1..M |-> IF i <= Len(qs) THEN qs[i].v3 ELSE Zero3],
   geomIDs |-> [i \in 1..M |-> IF i <= Len(qs) THEN qs[i].geomID ELSE INVALID],
   primIDs |-> [i \in 1..M |-> IF i <= Len(qs) THEN qs[i].primID ELSE INVALID]]

\* QuadMv<M>::valid(i)
QuadMv_valid(quad, i) == quad.geomIDs[i] # INVALID

\* The quad of lane i of a 2*M-wide register built from a QuadMv<M>.
LaneQuad(i) == ((i - 1) % M) + 1

-----------------------------------------------------------------------------
(* Epilogues *)

\* The external accept/reject filter, decided per geometry.
FilterAccepts(geomID) == geomID \notin filterRej

\* select_min: the valid lane of smallest t, the lowest lane on a tie.
select_min(valid, fin) ==
  CHOOSE i \in valid :
    \A j \in valid : \/ RatLess(fin[i].vt, fin[j].vt)
                     \/ (RatEq(fin[i].vt, fin[j].vt) /\ i <= j)

\* The ray with the hit of lane i written to it.
UpdateRay(r, f, geomID, primID) ==
  [r EXCEPT !.u = f.vu, !.v = f.vv, !.tfar = f.vt, !.Ng = f.vNg,
            !.geomID = geomID, !.primID = primID]

\* Intersect1Epilog: nearest-hit mode.  The nearest valid lane goes to the
\* filter; a rejected lane is dropped and the next nearest is tried; the
\* first accepted lane is written to the ray.  calls lists the lanes shown
\* to the filter.
\* The epilogue writing the nearest lane to the ray before it asks the
\* filter, and leaving it written on a rejection (a changed copy of
\* Intersect1EpilogLoop).
Intersect1EpilogLoop_writesBeforeFilter(r, valid, fin, geomIDs, primIDs, calls) ==
  IF valid = {}
  THEN [ray |-> r, ret |-> FALSE, filt |-> calls, lane |-> 0]
  ELSE LET i == select_min(valid, fin)
       IN  [ray  |-> UpdateRay(r, fin[i], geomIDs[i], primIDs[i]),
            ret  |-> Computed(fin) /\ FilterAccepts(geomIDs[i]),
            filt |-> Append(calls, i),
            lane |-> IF FilterAccepts(geomIDs[i]) THEN i ELSE 0]

RECURSIVE Intersect1EpilogLoop(_, _, _, _, _, _)
Intersect1EpilogLoop(r, valid, fin, geomIDs, primIDs, calls) ==
  IF valid = {}
  THEN [ray |-> r, ret |-> FALSE, filt |-> calls, lane |-> 0]
  ELSE LET i == select_min(valid, fin)
       IN  IF Computed(fin) /\ FilterAccepts(geomIDs[i])
           THEN [ray  |-> UpdateRay(r, fin[i], geomIDs[i], primIDs[i]),
                 ret  |-> TRUE, filt |-> Append(calls, i), lane |-> i]
           ELSE Intersect1EpilogLoop(r, valid \ {i}, fin, geomIDs, primIDs,
                                     Append(calls, i))

Intersect1Epilog(r, valid, hit, geomIDs, primIDs) ==
  Intersect1EpilogLoop(r, valid, [i \in DOMAIN hit |-> QuadHitM_finalize(hit[i])],
                       geomIDs, primIDs, <<>>)

\* Occluded1Epilog: occlusion mode.  The valid lanes go to the filter in lane
\* order; the first accepted lane makes the epilogue return true.  The ray
\* is not written.
RECURSIVE Occluded1EpilogLoop(_, _, _, _)
Occluded1EpilogLoop(r, valid, geomIDs, calls) ==
  IF valid = {}
  THEN [ray |-> r, ret |-> FALSE, filt |-> calls, lane |-> 0]
  ELSE LET i == CHOOSE j \in valid : \A j2 \in valid : j <= j2
       IN  IF FilterAccepts(geomIDs[i])
           THEN [ray |-> r, ret |-> TRUE, filt |-> Append(calls, i), lane |-> i]
           ELSE Occluded1EpilogLoop(r, valid \ {i}, geomIDs, Append(calls, i))

Occluded1Epilog(r, valid, hit, geomIDs, primIDs) ==
  Occluded1EpilogLoop(r, valid, geomIDs, <<>>)

\* IntersectKEpilog: every valid ray lane whose hit the filter accepts gets
\* the hit of quad i written to it; the accepted lanes are returned.
IntersectKEpilog(rk, valid, hit, geomID, primID) ==
  LET acc == IF FilterAccepts(geomID) THEN valid ELSE {}
  IN  [rk  |-> [k \in 1..K |->
                  IF k \in acc
                  THEN UpdateRay(rk[k], QuadHitK_call(hit[k]), geomID, primID)
                  ELSE rk[k]],
       ret |-> acc, filt |-> valid]

\* OccludedKEpilog: every valid ray lane whose hit the filter accepts is
\* cleared in valid0; the accepted lanes are returned.
OccludedKEpilog(valid0, valid, geomID) ==
  LET acc == IF FilterAccepts(geomID) THEN valid ELSE {}
  IN  [valid0 |-> valid0 \ acc, ret |-> acc, filt |-> valid]

\* Intersect1KEpilog / Occluded1KEpilog: the single-ray epilogues applied to
\* ray k of a packet.
Intersect1KEpilog(rk, k, valid, hit, geomIDs, primIDs) ==
  Intersect1Epilog(rk[k], valid, hit, geomIDs, primIDs)

Occluded1KEpilog(rk, k, valid, hit, geomIDs, primIDs) ==
  Occluded1Epilog(rk[k], valid, hit, geomIDs, primIDs)

NoEpilog(r) == [ray |-> r, ret |-> FALSE, filt |-> <<>>, lane |-> 0]

-----------------------------------------------------------------------------
(* Quad intersectors: M quads against 1 ray *)

\* What one kernel call did: the mask and hit it handed to the epilogue, the
\* ray it read (at), the lanes shown to the filter and the lane accepted.
CallRec(k, at, e) ==
  [valid |-> k.valid, hit |-> k.hit, den |-> k.den, at |-> at,
   filt |-> e.filt, ret |-> e.ret, lane |-> e.lane]

\* The two triangle registers of the 4-wide path: (v0,v1,v3) with flag false
\* and (v2,v3,v1) with flag true.
Tri44(quad, second) ==
  [i \in 1..M |->
     IF ~second
     THEN [v0 |-> quad.v0[i], v1 |-> quad.v1[i], v2 |-> quad.v3[i], flags |-> FALSE]
     ELSE [v0 |-> quad.v2[i], v1 |-> quad.v3[i], v2 |-> quad.v1[i], flags |-> TRUE]]

\* The interleaved register of the 8-wide paths: vtx0 = (v0 | v2),
\* vtx1 = v1, vtx2 = v3, flags = (0 | 1).
Tri48(quad) ==
  [i \in 1..(2 * M) |->
     [v0    |-> IF i <= M THEN quad.v0[i] ELSE quad.v2[i - M],
      v1    |-> quad.v1[LaneQuad(i)],
      v2    |-> quad.v3[LaneQuad(i)],
      flags |-> i > M]]

\* vint8(quad.geomIDs), vint8(quad.primIDs)
Wide(ids) == [i \in 1..(2 * M) |-> ids[LaneQuad(i)]]

\* What pre.intersect(ray, ..., epilog) gives for the mask and hit k of the
\* kernel and the result e of the epilogue.
Pre1Result(r, k, e) == [ray |-> e.ray, ret |-> e.ret, call |-> CallRec(k, r, e)]

\* if (unlikely(none(valid))) return false; ... return epilog(valid, hit):
\* the epilogue is called when the mask k.valid is not empty.
Intersect1Call(r, k, geomIDs, primIDs) ==
  Pre1Result(r, k, IF k.valid = {} THEN NoEpilog(r)
                   ELSE Intersect1Epilog(r, k.valid, k.hit, geomIDs, primIDs))

Occluded1Call(r, k, geomIDs, primIDs) ==
  Pre1Result(r, k, IF k.valid = {} THEN NoEpilog(r)
                   ELSE Occluded1Epilog(r, k.valid, k.hit, geomIDs, primIDs))

\* The occlusion call handing the kernel the nearest-hit epilogue (a changed
\* copy of Pre1Occluded).
Pre1Occluded_nearestEpilog(r, tri, lanes, geomIDs, primIDs) ==
  Intersect1Call(r, MoellerTrumboreIntersectorQuad1(cull, r, tri, lanes), geomIDs, primIDs)

\* pre.intersect(ray, ..., Intersect1Epilog(...)) : kernel, then epilogue
\* when the mask is not empty.
Pre1Intersect(r, tri, lanes, geomIDs, primIDs) ==
  Intersect1Call(r, MoellerTrumboreIntersectorQuad1(cull, r, tri, lanes), geomIDs, primIDs)

Pre1Occluded(r, tri, lanes, geomIDs, primIDs) ==
  Occluded1Call(r, MoellerTrumboreIntersectorQuad1(cull, r, tri, lanes), geomIDs, primIDs)

\* The result of an intersector that made the call a, and the calls a and b.
OneCall(a, ret) == [ray |-> a.ray, ret |-> ret, calls |-> <<a.call>>]
TwoCalls(a, b, ret) == [ray |-> b.ray, ret |-> ret, calls |-> <<a.call, b.call>>]

\* The 4-wide intersect without the call on the second triangles (a changed
\* copy of QuadMvIntersector1_intersect).
QuadMvIntersector1_intersect_firstOnly(r, quad) ==
  OneCall(Pre1Intersect(r, Tri44(quad, FALSE), 1..M, quad.geomIDs, quad.primIDs), FALSE)

\* The 4-wide intersect with its second call on the first triangles again
\* (a changed copy of QuadMvIntersector1_intersect).
QuadMvIntersector1_intersect_firstTwice(r, quad) ==
  TwoCalls(Pre1Intersect(r, Tri44(quad, FALSE), 1..M, quad.geomIDs, quad.primIDs),
           Pre1Intersect(Pre1Intersect(r, Tri44(quad, FALSE), 1..M, quad.geomIDs,
                                       quad.primIDs).ray,
                         Tri44(quad, FALSE), 1..M, quad.geomIDs, quad.primIDs),
           FALSE)

\* The second statement of the 4-wide intersect, after the call a on the
\* first triangles: the call on (v2,v3,v1) with the ray a left.
Intersect44Second(quad, a) ==
  TwoCalls(a, Pre1Intersect(a.ray, Tri44(quad, TRUE), 1..M, quad.geomIDs, quad.primIDs),
           FALSE)

\* QuadMvIntersector1MoellerTrumbore<4,4,filter>::intersect
QuadMvIntersector1_intersect(r, quad) ==
  Intersect44Second(quad, Pre1Intersect(r, Tri44(quad, FALSE), 1..M, quad.geomIDs,
                                        quad.primIDs))

\* What the 4-wide occluded returns after both calls.
Occluded44Ret(a, b) == TwoCalls(a, b, a.ret \/ b.ret)

\* The second statement of the 4-wide occluded, after the call a on the
\* first triangles, which is reached when a did not return true.
Occluded44Second(quad, a) ==
  IF a.ret THEN OneCall(a, TRUE)
  ELSE Occluded44Ret(a, Pre1Occluded(a.ray, Tri44(quad, TRUE), 1..M, quad.geomIDs,
                                     quad.primIDs))

\* The second statement reached whatever a returned.
Occluded44Always(quad, a) ==
  Occluded44Ret(a, Pre1Occluded(a.ray, Tri44(quad, TRUE), 1..M, quad.geomIDs,
                                quad.primIDs))

\* The 4-wide occluded without its early return after the first triangle (a
\* changed copy of QuadMvIntersector1_occluded).
QuadMvIntersector1_occluded_noReturn(r, quad) ==
  Occluded44Always(quad, Pre1Occluded(r, Tri44(quad, FALSE), 1..M, quad.geomIDs,
                                      quad.primIDs))

\* QuadMvIntersector1MoellerTrumbore<4,4,filter>::occluded
QuadMvIntersector1_occluded(r, quad) ==
  Occluded44Second(quad, Pre1Occluded(r, Tri44(quad, FALSE), 1..M, quad.geomIDs,
                                      quad.primIDs))

\* QuadMvIntersector1MoellerTrumbore<4,8,filter>::intersect
QuadMvIntersector1_8_intersect(r, quad) ==
  OneCall(Pre1Intersect(r, Tri48(quad), 1..(2 * M), Wide(quad.geomIDs),
                        Wide(quad.primIDs)), FALSE)

\* return pre.intersect(...): the result of the one call a is the result.
OccludedOneCall(a) == OneCall(a, a.ret)

\* QuadMvIntersector1MoellerTrumbore<4,8,filter>::occluded
QuadMvIntersector1_8_occluded(r, quad) ==
  OccludedOneCall(Pre1Occluded(r, Tri48(quad), 1..(2 * M), Wide(quad.geomIDs),
                               Wide(quad.primIDs)))

-----------------------------------------------------------------------------
(* Quad intersectors: M quads against K rays, and against ray k of K *)

\* What one intersectK call did; index is the quad of the batch.
CallRecK(i, k, at, valid0, e) ==
  [index |-> i, valid |-> k.valid, hit |-> k.hit, den |-> k.den, at |-> at,
   valid0 |-> valid0, filt |-> e.filt, ret |-> e.ret]

\* What intersectK(valid0, ray, ..., epilog) gives for the mask and hit k of
\* the kernel and the result e of the epilogue.
PreKResultI(i, valid0, rk, k, e) ==
  [rk |-> e.rk, call |-> CallRecK(i, k, rk, valid0, e)]

PreKResultO(i, valid0, rk, k, e) ==
  [valid0 |-> e.valid0, call |-> CallRecK(i, k, rk, valid0, e)]

\* The epilogue is called when the mask k.valid is not empty.
IntersectKCall(i, valid0, rk, k, geomID, primID) ==
  PreKResultI(i, valid0, rk, k,
              IF k.valid = {} THEN [rk |-> rk, ret |-> {}, filt |-> {}]
              ELSE IntersectKEpilog(rk, k.valid, k.hit, geomID, primID))

OccludedKCall(i, valid0, rk, k, geomID) ==
  PreKResultO(i, valid0, rk, k,
              IF k.valid = {} THEN [valid0 |-> valid0, ret |-> {}, filt |-> {}]
              ELSE OccludedKEpilog(valid0, k.valid, geomID))

PreKIntersect(valid0, rk, v0, v1, v2, flags, geomID, primID, i) ==
  IntersectKCall(i, valid0, rk, intersectK(cull, valid0, rk, v0, v1, v2, flags), geomID,
                 primID)

PreKOccluded(valid0, rk, v0, v1, v2, flags, geomID, i) ==
  OccludedKCall(i, valid0, rk, intersectK(cull, valid0, rk, v0, v1, v2, flags), geomID)

\* QuadMvIntersectorKMoellerTrumbore::intersect(valid_i, pre, ray, tri):
\* the loop over the quads of the batch from index i on.
RECURSIVE IntersectKLoop(_, _, _, _, _)
\* After the call b on (v2,v3,v1) of quad i: the next index.
IntersectKStep(i, valid_i, tri, calls, b) ==
  IntersectKLoop(i + 1, valid_i, b.rk, tri, Append(calls, b.call))

\* After the call a on (v0,v1,v3) of quad i: the call on (v2,v3,v1).
IntersectKSecond(i, valid_i, tri, calls, a) ==
  IntersectKStep(i, valid_i, tri, Append(calls, a.call),
                 PreKIntersect(valid_i, a.rk, tri.v2[i], tri.v3[i], tri.v1[i], TRUE,
                               tri.geomIDs[i], tri.primIDs[i] + 1, i))

IntersectKLoop(i, valid_i, rk, tri, calls) ==
  IF i > M \/ ~QuadMv_valid(tri, i)
  THEN [rk |-> rk, calls |-> calls]
  ELSE IntersectKSecond(i, valid_i, tri, calls,
                        PreKIntersect(valid_i, rk, tri.v0[i], tri.v1[i], tri.v3[i], FALSE,
                                      tri.geomIDs[i], tri.primIDs[i], i))

QuadMvIntersectorK_intersect(valid_i, rk, tri) ==
  IntersectKLoop(1, valid_i, rk, tri, <<>>)

\* QuadMvIntersectorKMoellerTrumbore::occluded(valid_i, pre, ray, tri): the
\* loop from index i on; the result is !valid0.
RECURSIVE OccludedKLoop(_, _, _, _, _)
\* After the call b on (v2,v3,v1) of quad i: break when no ray is left, else
\* the next index.
OccludedKStep(i, rk, tri, calls, b) ==
  IF b.valid0 = {}
  THEN [ret |-> (1..K) \ b.valid0, calls |-> Append(calls, b.call)]
  ELSE OccludedKLoop(i + 1, b.valid0, rk, tri, Append(calls, b.call))

\* The call on (v2,v3,v1) made whatever the call a left in valid0 (a changed
\* copy of OccludedKSecond).
OccludedKSecond_noBreak(i, rk, tri, calls, a) ==
  OccludedKStep(i, rk, tri, Append(calls, a.call),
                PreKOccluded(a.valid0, rk, tri.v2[i], tri.v3[i], tri.v1[i], TRUE,
                             tri.geomIDs[i], i))

\* After the call a on (v0,v1,v3) of quad i: break when no ray is left, else
\* the call on (v2,v3,v1).
OccludedKSecond(i, rk, tri, calls, a) ==
  IF a.valid0 = {}
  THEN [ret |-> (1..K) \ a.valid0, calls |-> Append(calls, a.call)]
  ELSE OccludedKStep(i, rk, tri, Append(calls, a.call),
                     PreKOccluded(a.valid0, rk, tri.v2[i], tri.v3[i], tri.v1[i], TRUE,
                                  tri.geomIDs[i], i))

OccludedKLoop(i, valid0, rk, tri, calls) ==
  IF i > M \/ ~QuadMv_valid(tri, i)
  THEN [ret |-> (1..K) \ valid0, calls |-> calls]
  ELSE OccludedKSecond(i, rk, tri, calls,
                       PreKOccluded(valid0, rk, tri.v0[i], tri.v1[i], tri.v3[i], FALSE,
                                    tri.geomIDs[i], i))

QuadMvIntersectorK_occluded(valid_i, rk, tri) ==
  OccludedKLoop(1, valid_i, rk, tri, <<>>)

\* What the k-th ray intersectors give for the mask and hit kr of the kernel
\* and the result e of the epilogue.
KthResultI(rk, k, kr, e) ==
  [rk |-> [rk EXCEPT ![k] = e.ray], ret |-> FALSE, calls |-> <<CallRec(kr, rk[k], e)>>]

KthResultO(rk, k, kr, e) ==
  [rk |-> rk, ret |-> e.ret, calls |-> <<CallRec(kr, rk[k], e)>>]

\* The epilogue is called when the mask kr.valid is not empty.
IntersectKthCall(rk, k, tri, kr) ==
  KthResultI(rk, k, kr,
             IF kr.valid = {} THEN NoEpilog(rk[k])
             ELSE Intersect1KEpilog(rk, k, kr.valid, kr.hit, Wide(tri.geomIDs),
                                    Wide(tri.primIDs)))

OccludedKthCall(rk, k, tri, kr) ==
  KthResultO(rk, k, kr,
             IF kr.valid = {} THEN NoEpilog(rk[k])
             ELSE Occluded1KEpilog(rk, k, kr.valid, kr.hit, Wide(tri.geomIDs),
                                   Wide(tri.primIDs)))

\* QuadMvIntersectorKMoellerTrumbore::intersect(pre, ray, k, tri)
QuadMvIntersectorK_intersect1(rk, k, tri) ==
  IntersectKthCall(rk, k, tri, intersectKth(cull, rk, k, Tri48(tri), 1..(2 * M)))

\* QuadMvIntersectorKMoellerTrumbore::occluded(pre, ray, k, tri)
QuadMvIntersectorK_occluded1(rk, k, tri) ==
  OccludedKthCall(rk, k, tri, intersectKth(cull, rk, k, Tri48(tri), 1..(2 * M)))

-----------------------------------------------------------------------------
(* Rays and geometry the queries are run on *)

\* A ray as renderTileStandard and ambientOcclusionShading initialise it:
\* geomID and primID invalid; u, v, Ng hold what the caller left there.
Ray(org, dir, tnear, tfar) ==
  [org |-> org, dir |-> dir, tnear |-> tnear, tfar |-> tfar,
   geomID |-> INVALID, primID |-> INVALID,
   u |-> <<0, 1>>, v |-> <<0, 1>>, Ng |-> Zero3]

\* The output fields of a ray.
Out(r) == <<r.geomID, r.primID, r.u, r.v, r.Ng>>

\* An axis-parallel quad of side 4 in the plane z = z, counter-clockwise
\* seen from +z (front-facing for rays travelling towards -z) ...
QuadZ(z, g, p) == Quad(<<0, 0, z>>, <<4, 0, z>>, <<4, 4, z>>, <<0, 4, z>>, g, p)
\* ... the same quad with the opposite winding ...
QuadZr(z, g, p) == Quad(<<0, 0, z>>, <<0, 4, z>>, <<4, 4, z>>, <<4, 0, z>>, g, p)
\* ... a quad shifted by dx along x ...
QuadZx(dx, z, g, p) ==
  Quad(<<dx, 0, z>>, <<dx + 4, 0, z>>, <<dx + 4, 4, z>>, <<dx, 4, z>>, g, p)
\* ... a quad in the plane x = x, facing rays travelling towards +x ...
QuadX(x, g, p) == Quad(<<x, 0, 0>>, <<x, 0, 4>>, <<x, 4, 4>>, <<x, 4, 0>>, g, p)
\* ... and a quad of zero area.
QuadDeg(g, p) == Quad(<<0, 0, 0>>, <<4, 4, 0>>, <<4, 4, 0>>, <<0, 0, 0>>, g, p)

\* The batches the kernels are exercised on: partially filled ones (1, 2 and
\* 3 of 4 lanes), a full one, ties in t, both windings, a degenerate quad,
\* one whose nearer quad is met by the second kernel call, one whose shared
\* diagonal v1-v3 (x + y = 2) is struck away from its middle by the rays
\* from (1, 1, 3), and the unit quad 4 times as large and moved by -1 along
\* z, so that the rays from (2, 2, 3) are the ray from (0.5, 0.5, 1) on it.
Batches ==
  << QuadMv_fill(<<QuadZ(0, 0, 0)>>),
     QuadMv_fill(<<QuadZ(0, 0, 0), QuadZ(1, 1, 0)>>),
     QuadMv_fill(<<QuadZr(1, 0, 0), QuadZ(0, 1, 0), QuadDeg(1, 1)>>),
     QuadMv_fill(<<QuadZ(0, 0, 0), QuadZ(0, 1, 0), QuadX(2, 0, 1), QuadZr(1, 1, 1)>>),
     QuadMv_fill(<<QuadZx(2, 0, 0, 0), QuadZ(1, 1, 0)>>),
     QuadMv_fill(<<QuadZx(-2, 0, 0, 0)>>),
     QuadMv_fill(<<QuadZ(-1, 0, 0)>>) >>

\* Number of valid quads of a batch (validity is a prefix).
QuadMv_size(quad) == Cardinality({i \in 1..M : QuadMv_valid(quad, i)})

RayOrgs == {<<1, 1, 3>>, <<2, 2, 3>>, <<3, 2, 3>>}

\* Directions with the [tnear, tfar] intervals they are cast with: towards
\* the quads over the whole half line, over an interval ending on a quad
\* (t = MaxTFar is the plane z = 0 seen from z = 3) and over one starting on
\* a quad (t = 2 is the plane z = 1); with a direction that is not of unit
\* length; away from the quads; parallel to them.
Casts ==
  { <<<<0, 0, -1>>, <<0, 1>>, PosInf>>,
    <<<<0, 0, -1>>, <<0, 1>>, <<MaxTFar, 1>>>>,
    <<<<0, 0, -1>>, <<2, 1>>, PosInf>>,
    <<<<0, 0, -2>>, <<0, 1>>, PosInf>>,
    <<<<0, 0, 1>>, <<0, 1>>, PosInf>>,
    <<<<1, 0, 0>>, <<0, 1>>, PosInf>> }

Rays == {Ray(o, c[1], c[2], c[3]) : o \in RayOrgs, c \in Casts}

\* The rays of the other lanes of a packet.
PacketRays == {Ray(<<3, 3, 3>>, <<0, 0, -1>>, <<0, 1>>, PosInf),
               Ray(<<1, 2, -2>>, <<0, 0, 1>>, <<0, 1>>, <<MaxTFar, 1>>)}

FilterSets == {{}, {0}}

-----------------------------------------------------------------------------
(* Kernel harness: each intersector applied once to a batch *)

TravIdle ==
  /\ scene = 0 /\ mode = "none" /\ cur = 0 /\ stack = <<>> /\ pc = "idle"
  /\ log = <<>> /\ run = 0 /\ first = <<>>

\* No concurrent queries and no sort under test.
OthersIdle == thr = <<>> /\ sortIn = <<>> /\ sortOut = <<>> /\ img = <<>>

BuildInit ==
  /\ cull \in BOOLEAN
  /\ avx \in BOOLEAN
  /\ filterRej \in FilterSets

KInit ==
  /\ BuildInit
  /\ TravIdle
  /\ OthersIdle
  /\ kbatch \in 1..Len(Batches)
  /\ ray \in Rays
  /\ ray0 = ray
  /\ rayK = [k \in 1..K |-> ray]
  /\ rayK0 = rayK
  /\ validi = 1..K
  /\ kop = "none"
  /\ kout = [ret |-> FALSE, calls |-> <<>>]

KFrame == UNCHANGED <<cull, avx, filterRej, scene, mode, ray0, cur, stack, pc, log,
                      run, first, kbatch, thr, sortIn, sortOut, img>>

\* Apply a single-ray intersector to ray.
KSingle(name, out) ==
  /\ kop = "none"
  /\ kop' = name
  /\ ray' = out.ray
  /\ kout' = [ret |-> out.ret, calls |-> out.calls]
  /\ UNCHANGED <<rayK, rayK0, validi>>
  /\ KFrame

K_intersect1 == KSingle("intersect1", QuadMvIntersector1_intersect(ray, Batches[kbatch]))

K_occluded1 == KSingle("occluded1", QuadMvIntersector1_occluded(ray, Batches[kbatch]))

K_intersect1_8 ==
  avx /\ KSingle("intersect1_8", QuadMvIntersector1_8_intersect(ray, Batches[kbatch]))

K_occluded1_8 ==
  avx /\ KSingle("occluded1_8", QuadMvIntersector1_8_occluded(ray, Batches[kbatch]))

\* The packet whose first lane is ray and whose other lanes are p.
Packet(p) == [k \in 1..K |-> IF k = 1 THEN ray ELSE p]

ActiveMasks == (SUBSET (1..K)) \ {{}}

K_intersectK ==
  /\ kop = "none"
  /\ \E v \in ActiveMasks, p \in PacketRays :
       \E out \in {QuadMvIntersectorK_intersect(v, Packet(p), Batches[kbatch])} :
           /\ rayK0' = Packet(p)
           /\ validi' = v
           /\ rayK' = out.rk
           /\ kout' = [ret |-> {}, calls |-> out.calls]
  /\ kop' = "intersectK"
  /\ UNCHANGED ray
  /\ KFrame

K_occludedK ==
  /\ kop = "none"
  /\ \E v \in ActiveMasks, p \in PacketRays :
       \E out \in {QuadMvIntersectorK_occluded(v, Packet(p), Batches[kbatch])} :
           /\ rayK0' = Packet(p)
           /\ validi' = v
           /\ rayK' = rayK0'
           /\ kout' = [ret |-> out.ret, calls |-> out.calls]
  /\ kop' = "occludedK"
  /\ UNCHANGED ray
  /\ KFrame

K_intersectKth ==
  /\ kop = "none"
  /\ avx
  /\ \E k \in 1..K, p \in PacketRays :
       \E out \in {QuadMvIntersectorK_intersect1(Packet(p), k, Batches[kbatch])} :
           /\ rayK0' = Packet(p)
           /\ validi' = {k}
           /\ rayK' = out.rk
           /\ kout' = [ret |-> out.ret, calls |-> out.calls]
  /\ kop' = "intersectKth"
  /\ UNCHANGED ray
  /\ KFrame

K_occludedKth ==
  /\ kop = "none"
  /\ avx
  /\ \E k \in 1..K, p \in PacketRays :
       \E out \in {QuadMvIntersectorK_occluded1(Packet(p), k, Batches[kbatch])} :
           /\ rayK0' = Packet(p)
           /\ validi' = {k}
           /\ rayK' = out.rk
           /\ kout' = [ret |-> out.ret, calls |-> out.calls]
  /\ kop' = "occludedKth"
  /\ UNCHANGED ray
  /\ KFrame

KNext ==
  \/ K_intersect1
  \/ K_occluded1
  \/ K_intersect1_8
  \/ K_occluded1_8
  \/ K_intersectK
  \/ K_occludedK
  \/ K_intersectKth
  \/ K_occludedKth

SpecKernel == KInit /\ [][KNext]_vars

-----------------------------------------------------------------------------
(* Acceleration structures *)

\* A stack sized for two deferred siblings per level (a changed copy of
\* stackSize).
stackSize_twoSiblings == 1 + 2 * maxDepth

\* stackSize = 1+3*BVH4Hair::maxDepth
stackSize == 1 + 3 * maxDepth

\* A leaf referencing one batch of quads, and an internal node with up to 4
\* children (indices into the structure's node sequence; the root is node 1).
Leaf(qs) == [leaf |-> TRUE, kids |-> <<>>, quad |-> QuadMv_fill(qs)]
Node(kids) == [leaf |-> FALSE, kids |-> kids, quad |-> <<>>]

\* The structures queried: a single leaf; one level with four leaves, two of
\* them holding coincident quads of different geometries; two levels, where
\* a leaf entered early (its box holds the ray origin) has its hit behind the
\* hit of a leaf entered late; one level with three leaves of two quads each,
\* where the rays towards -z meet a quad of the first leaf only, enter the
\* box of the second leaf before that hit and the box of the third after it;
\* two levels with four children each, all of whose boxes the rays towards
\* -z enter, the internal child first.
Scenes ==
  << << Leaf(<<QuadZx(2, 0, 0, 0), QuadZ(1, 1, 0), QuadZr(1, 0, 1)>>) >>,
     << Node(<<2, 3, 4, 5>>),
        Leaf(<<QuadZ(0, 0, 0)>>),
        Leaf(<<QuadZ(0, 1, 0)>>),
        Leaf(<<QuadZ(1, 2, 0)>>),
        Leaf(<<QuadZr(1, 3, 0), QuadDeg(3, 1)>>) >>,
     << Node(<<2, 6>>),
        Node(<<3, 4, 5>>),
        Leaf(<<QuadZ(1, 0, 0)>>),
        Leaf(<<QuadZ(4, 1, 0)>>),
        Leaf(<<QuadZx(2, 2, 3, 0)>>),
        Leaf(<<QuadZ(0, 2, 0), QuadX(2, 2, 1)>>) >>,
     << Node(<<2, 3, 4>>),
        Leaf(<<QuadZ(0, 0, 0), QuadZx(10, 3, 0, 1)>>),
        Leaf(<<QuadZx(10, 1, 1, 0), QuadZx(-10, 2, 1, 1)>>),
        Leaf(<<QuadZx(10, -1, 2, 0), QuadZx(-10, -2, 2, 1)>>) >>,
     << Node(<<2, 3, 4, 5>>),
        Node(<<6, 7, 8, 9>>),
        Leaf(<<QuadZ(-1, 1, 0)>>),
        Leaf(<<QuadZ(-2, 2, 0)>>),
        Leaf(<<QuadZ(-3, 3, 0)>>),
        Leaf(<<QuadZ(2, 0, 0)>>),
        Leaf(<<QuadZ(1, 0, 1)>>),
        Leaf(<<QuadZ(0, 1, 1)>>),
        Leaf(<<QuadZ(0, 2, 1)>>) >> >>

Min(S) == CHOOSE x \in S : \A y \in S : x <= y
Max(S) == CHOOSE x \in S : \A y \in S : y <= x

\* The leaves below node n of structure s.
RECURSIVE Leaves(_, _)
Leaves(s, n) ==
  IF Scenes[s][n].leaf THEN {n}
  ELSE UNION {Leaves(s, Scenes[s][n].kids[i]) : i \in 1..Len(Scenes[s][n].kids)}

\* The vertices of the valid quads of a batch, and the box of a set of points.
QuadVertices(q) ==
  UNION {{q.v0[i], q.v1[i], q.v2[i], q.v3[i]} : i \in {j \in 1..M : QuadMv_valid(q, j)}}

BoxOf(pts) ==
  [lower |-> [a \in 1..3 |-> Min({p[a] : p \in pts})],
   upper |-> [a \in 1..3 |-> Max({p[a] : p \in pts})]]

\* The builder's bounding box of node n: the box of the vertices of the
\* valid quads below it.
Bounds(s, n) ==
  BoxOf(UNION {QuadVertices(Scenes[s][l].quad) : l \in Leaves(s, n)})

\* Depth of the structure below node n (a leaf has depth 0).
RECURSIVE Depth(_, _)
Depth(s, n) ==
  IF Scenes[s][n].leaf THEN 0
  ELSE 1 + Max({Depth(s, Scenes[s][n].kids[i]) : i \in 1..Len(Scenes[s][n].kids)})

-----------------------------------------------------------------------------
(* Traversal *)

\* Slab test on one axis (direction d, origin o, planes lo and hi): the
\* interval of t in which the ray is between the two planes.  A ray parallel
\* to the slab is inside for every t or for none.
Slab(d, o, lo, hi) ==
  IF d > 0 THEN [near |-> <<lo - o, d>>, far |-> <<hi - o, d>>]
  ELSE IF d < 0 THEN [near |-> <<o - hi, -d>>, far |-> <<o - lo, -d>>]
  ELSE IF lo <= o /\ o <= hi THEN [near |-> NegInf, far |-> PosInf]
  ELSE [near |-> PosInf, far |-> NegInf]

\* A box entry: the flag tNear <= tFar with the two distances.
BoxEntry(tNear, tFar) == [valid |-> RatLeq(tNear, tFar), tNear |-> tNear, tFar |-> tFar]

\* The three slabs of a box intersected with [ray.tnear, ray.tfar].
SlabClip(r, x, y, z) ==
  BoxEntry(RatMax(RatMax(x.near, y.near), RatMax(z.near, r.tnear)),
           RatMin(RatMin(x.far, y.far), RatMin(z.far, r.tfar)))

BoxTest(r, box) ==
  SlabClip(r, Slab(r.dir[1], r.org[1], box.lower[1], box.upper[1]),
              Slab(r.dir[2], r.org[2], box.lower[2], box.upper[2]),
              Slab(r.dir[3], r.org[3], box.lower[3], box.upper[3]))

\* intersectBox: the children of node n tested against the ray together;
\* per child tNear, tFar clipped to [ray.tnear, ray.tfar] and the validity
\* flag tNear <= tFar.
intersectBox(s, n, r) ==
  [i \in 1..Len(Scenes[s][n].kids) |-> BoxTest(r, Bounds(s, Scenes[s][n].kids[i]))]

\* struct StackItem { size_t ref; float tNear,tFar; }
StackItem(ref, tNear, tFar) == [ref |-> ref, tNear |-> tNear, tFar |-> tFar]

\* StackItem::swap2 on items i and j of s
swap2(s, i, j) == [s EXCEPT ![i] = s[j], ![j] = s[i]]

\* if (sj.tNear < si.tNear) swap2(sj,si): with the comparison a tie in tNear
\* is left in place (a changed copy follows: ties are swapped from the second
\* query of a ray on).
CompareSwap_tiesOnRerun(s, i, j) ==
  IF RatLess(s[j].tNear, s[i].tNear) \/ (run > 1 /\ RatEq(s[j].tNear, s[i].tNear))
  THEN swap2(s, i, j) ELSE s

\* The comparison that never swaps (a changed copy of CompareSwap).
CompareSwap_neverSwaps(s, i, j) == s

CompareSwap(s, i, j) ==
  IF RatLess(s[j].tNear, s[i].tNear) THEN swap2(s, i, j) ELSE s

\* StackItem::sort for 2, 3 and 4 items
sort2(s) == CompareSwap(s, 1, 2)

sort3(s) == CompareSwap(CompareSwap(CompareSwap(s, 1, 2), 2, 3), 1, 2)

\* The 4-item sort without its last comparison (a changed copy of sort4).
sort4_lastComparisonLeftOut(s) ==
  CompareSwap(CompareSwap(CompareSwap(CompareSwap(s, 1, 2), 3, 4), 1, 3), 2, 4)

sort4(s) ==
  CompareSwap(CompareSwap(CompareSwap(CompareSwap(CompareSwap(s, 1, 2), 3, 4), 1, 3),
                          2, 4), 2, 3)

\* The surviving children of node n in child order.
RECURSIVE Survivors(_, _, _)
Survivors(kids, boxes, i) ==
  IF i > Len(kids) THEN <<>>
  ELSE IF Computed(boxes) /\ boxes[i].valid
  THEN <<StackItem(kids[i], boxes[i].tNear, boxes[i].tFar)>> \o Survivors(kids, boxes, i + 1)
  ELSE Survivors(kids, boxes, i + 1)

\* The survivors by ascending tNear.
Sorted(sv) ==
  IF Len(sv) = 2 THEN sort2(sv)
  ELSE IF Len(sv) = 3 THEN sort3(sv)
  ELSE IF Len(sv) = 4 THEN sort4(sv)
  ELSE sv

Reverse(q) == [i \in 1..Len(q) |-> q[Len(q) + 1 - i]]

\* State the traversal is in on arriving at node n.
Arrive(s, n) == IF Scenes[s][n].leaf THEN "leaf" ELSE "descend"

\* The leaf intersector of the build: 8 wide with __AVX__, else 4 wide.
LeafIntersect(r, quad) ==
  IF avx THEN QuadMvIntersector1_8_intersect(r, quad)
  ELSE QuadMvIntersector1_intersect(r, quad)

LeafOccluded(r, quad) ==
  IF avx THEN QuadMvIntersector1_8_occluded(r, quad)
  ELSE QuadMvIntersector1_occluded(r, quad)

\* The events of the kernel calls of one leaf visit: a call, and the
\* acceptance of a hit by its epilogue.
RECURSIVE CallEvents(_, _, _)
CallEvents(n, calls, i) ==
  IF i > Len(calls) THEN <<>>
  ELSE <<<<"prim", n, i>>>> \o (IF calls[i].ret THEN <<<<"accept", n, i>>>> ELSE <<>>)
       \o CallEvents(n, calls, i + 1)

\* static void occluded(const BVH4Hair* This, Ray& ray): nothing is
\* returned; the caller reads ray.geomID != RTC_INVALID_GEOMETRY_ID as
\* "occluded", so a found hit is reported by making geomID valid.
OccludedReport(r) == [r EXCEPT !.geomID = 0]

TInit ==
  /\ BuildInit
  /\ OthersIdle
  /\ scene \in {s \in 1..Len(Scenes) : Depth(s, 1) <= maxDepth}
  /\ ray \in Rays
  /\ ray0 = ray
  /\ mode = "none" /\ cur = 0 /\ stack = <<>> /\ pc = "idle"
  /\ log = <<>> /\ run = 0 /\ first = <<>>
  /\ kbatch = 1
  /\ rayK = [k \in 1..K |-> ray]
  /\ rayK0 = rayK
  /\ validi = {}
  /\ kop = "none"
  /\ kout = [ret |-> FALSE, calls |-> <<>>]

TFrame == UNCHANGED <<cull, avx, filterRej, scene, ray0, kbatch, rayK, rayK0, validi,
                      kop, thr, sortIn, sortOut, img>>

\* intersect(This, ray) / occluded(This, ray) is entered with a copy of the
\* caller's ray; the traversal starts at the root.  first keeps what the
\* query before it answered.
Start ==
  /\ pc \in {"idle", "done"}
  /\ run < MaxRuns
  /\ \E m \in {"intersect", "occluded"} : mode' = m
  /\ first' = IF pc = "done" THEN [mode |-> mode, ray |-> ray] ELSE <<>>
  /\ run' = run + 1
  /\ ray' = ray0
  /\ cur' = 1
  /\ stack' = <<>>
  /\ pc' = Arrive(scene, 1)
  /\ log' = <<>>
  /\ kout' = [ret |-> FALSE, calls |-> <<>>]
  /\ TFrame

\* At an internal node: box test of all children, sort of the survivors,
\* push of all but the nearest, descent into the nearest.
Descend ==
  /\ pc = "descend"
  /\ \E sv \in {Sorted(Survivors(Scenes[scene][cur].kids,
                                 intersectBox(scene, cur, ray), 1))} :
       IF sv = <<>>
       THEN /\ pc' = "pop"
            /\ UNCHANGED <<cur, stack>>
       ELSE /\ cur' = sv[1].ref
            /\ pc' = Arrive(scene, sv[1].ref)
            /\ stack' = stack \o Reverse(Tail(sv))
  /\ log' = Append(log, <<"box", cur>>)
  /\ UNCHANGED <<mode, ray, run, first, kout>>
  /\ TFrame

\* At a leaf: the primitive kernel over its batch with the epilogue of the
\* query.  An occlusion query ends at the first accepted hit.
AtLeaf ==
  /\ pc = "leaf"
  /\ \E out \in {IF mode = "intersect"
                 THEN LeafIntersect(ray, Scenes[scene][cur].quad)
                 ELSE LeafOccluded(ray, Scenes[scene][cur].quad)} :
       /\ kout' = [ret |-> out.ret, calls |-> kout.calls \o out.calls]
       /\ log' = log \o CallEvents(cur, out.calls, 1)
       /\ IF mode = "occluded" /\ out.ret
          THEN /\ ray' = OccludedReport(out.ray)
               /\ pc' = "done"
          ELSE /\ ray' = out.ray
               /\ pc' = "pop"
  /\ UNCHANGED <<mode, cur, stack, run, first>>
  /\ TFrame

\* Pop that discards only an entry whose tNear is above ray.tfar: an entry
\* with tNear = ray.tfar is descended into (a changed copy of Pop).
Pop_equalVisited ==
  /\ pc = "pop"
  /\ stack # <<>>
  /\ LET top == stack[Len(stack)]
     IN  /\ stack' = SubSeq(stack, 1, Len(stack) - 1)
         /\ IF RatLess(ray.tfar, top.tNear)
            THEN /\ log' = Append(log, <<"discard", top.ref>>)
                 /\ UNCHANGED <<cur, pc>>
            ELSE /\ log' = Append(log, <<"pop", top.ref>>)
                 /\ cur' = top.ref
                 /\ pc' = Arrive(scene, top.ref)
  /\ UNCHANGED <<mode, ray, run, first, kout>>
  /\ TFrame

\* Pop without the comparison against ray.tfar: every entry is descended
\* into (a changed copy of Pop).
Pop_noDiscard ==
  /\ pc = "pop"
  /\ stack # <<>>
  /\ LET top == stack[Len(stack)]
     IN  /\ stack' = SubSeq(stack, 1, Len(stack) - 1)
         /\ log' = Append(log, <<"pop", top.ref>>)
         /\ cur' = top.ref
         /\ pc' = Arrive(scene, top.ref)
  /\ UNCHANGED <<mode, ray, run, first, kout>>
  /\ TFrame

\* Pop: an entry whose tNear >= ray.tfar is discarded without a visit; any
\* other entry is descended into.
Pop ==
  /\ pc = "pop"
  /\ stack # <<>>
  /\ LET top == stack[Len(stack)]
     IN  /\ stack' = SubSeq(stack, 1, Len(stack) - 1)
         /\ IF RatLeq(ray.tfar, top.tNear)
            THEN /\ log' = Append(log, <<"discard", top.ref>>)
                 /\ UNCHANGED <<cur, pc>>
            ELSE /\ log' = Append(log, <<"pop", top.ref>>)
                 /\ cur' = top.ref
                 /\ pc' = Arrive(scene, top.ref)
  /\ UNCHANGED <<mode, ray, run, first, kout>>
  /\ TFrame

\* A return that waits for a hit on the ray (a changed copy of Done).
Done_onlyWithHit ==
  /\ pc = "pop"
  /\ stack = <<>>
  /\ ray.geomID # INVALID
  /\ pc' = "done"
  /\ UNCHANGED <<mode, ray, cur, stack, log, run, first, kout>>
  /\ TFrame

\* The query returns when the stack is empty.
Done ==
  /\ pc = "pop"
  /\ stack = <<>>
  /\ pc' = "done"
  /\ UNCHANGED <<mode, ray, cur, stack, log, run, first, kout>>
  /\ TFrame

Init == TInit

Next ==
  \/ Start
  \/ Descend
  \/ AtLeaf
  \/ Pop
  \/ Done

Spec == Init /\ [][Next]_vars

\* A query is sequential code: once entered, its loop keeps taking its next
\* step.  The caller is free to issue no further query.  Weak fairness of
\* Descend and of AtLeaf is written out, with the condition under which the
\* step is enabled (pc alone: the step is defined for every node and ray)
\* in the place of ENABLED.
SpecLive ==
  /\ Init
  /\ [][Next]_vars
  /\ ([]<>(pc # "descend") \/ []<><<Descend>>_vars)
  /\ ([]<>(pc # "leaf") \/ []<><<AtLeaf>>_vars)
  /\ WF_vars(Pop)
  /\ WF_vars(Done)

-----------------------------------------------------------------------------
(* Properties *)

\* A hit as it is written to the ray.
HitOf(f, geomID, primID) ==
  [t |-> f.vt, u |-> f.vu, v |-> f.vv, Ng |-> f.vNg, geomID |-> geomID,
   primID |-> primID]

\* The hits of the mask k of one kernel call on the batch quad that the
\* filter accepts.
AcceptedHits(k, quad) ==
  {HitOf(QuadHitM_finalize(k.hit[l]), quad.geomIDs[LaneQuad(l)],
         quad.primIDs[LaneQuad(l)]) :
     l \in {j \in k.valid : FilterAccepts(quad.geomIDs[LaneQuad(j)])}}

\* Every triangle of a batch tested against ray r by the kernel of the build.
BatchHits(r, quad) ==
  IF avx
  THEN AcceptedHits(MoellerTrumboreIntersectorQuad1(cull, r, Tri48(quad), 1..(2 * M)), quad)
  ELSE AcceptedHits(MoellerTrumboreIntersectorQuad1(cull, r, Tri44(quad, FALSE), 1..M),
                    quad)
       \cup AcceptedHits(MoellerTrumboreIntersectorQuad1(cull, r, Tri44(quad, TRUE), 1..M),
                         quad)

\* Every triangle of structure s tested against ray r, without the tree.
AllHits(s, r) == UNION {BatchHits(r, Scenes[s][l].quad) : l \in Leaves(s, 1)}

\* The ray r with hit c written to it.
WithHit(r, c) ==
  [r EXCEPT !.tfar = c.t, !.geomID = c.geomID, !.primID = c.primID, !.u = c.u,
            !.v = c.v, !.Ng = c.Ng]

\* The events of a kind in the log of the query.
Events(kind) == {i \in 1..Len(log) : log[i][1] = kind}

\* The operation applied was one of the two packet loops.
PacketOp == kop \in {"intersectK", "occludedK"}

\* The ray a kernel call read for lane l of its mask, and the finalised hit
\* of that lane.
RayAt(c, l) == IF PacketOp THEN c.at[l] ELSE c.at

Finalised(c, l) ==
  IF PacketOp THEN QuadHitK_call(c.hit[l]) ELSE QuadHitM_finalize(c.hit[l])

\* C1: when intersect returns, the ray holds a hit of smallest t among the
\* hits that testing every triangle of the structure against the ray as it
\* was handed in gives and the filter accepts; when there is none, the ray
\* is as it was handed in (its output fields hold the no-hit values).
C1_NearestAcceptedHit ==
  (mode = "intersect" /\ pc = "done") =>
    \E hits \in {AllHits(scene, ray0)} :
      IF hits = {} THEN ray = ray0
      ELSE \E c \in hits : /\ \A d \in hits : RatLeq(c.t, d.t)
                           /\ ray = WithHit(ray0, c)

\* A nearest-hit query returned with a hit after it discarded a stack entry
\* and visited another, in a structure where several triangles are hit.
C1_Witness ==
  /\ mode = "intersect"
  /\ pc = "done"
  /\ ray.geomID # INVALID
  /\ Events("discard") # {}
  /\ Events("pop") # {}
  /\ Cardinality(AllHits(scene, ray0)) > 1

\* C2 as stated: an occlusion query leaves the output fields of the ray
\* (geometry id, primitive id, u, v, normal) as they were handed in, when a
\* hit is found and when none is found.
C2_OccludedLeavesOutputFields ==
  mode = "occluded" => Out(ray) = Out(ray0)

\* C2, amended: occluded returns nothing; it reports a found hit by making
\* ray.geomID valid and leaves every other field of the ray as it was handed
\* in; when no hit is found the whole ray is as it was handed in.
C2_OccludedReportsInGeomID ==
  mode = "occluded" =>
    /\ [ray EXCEPT !.geomID = ray0.geomID] = ray0
    /\ (ray.geomID # INVALID) = (Events("accept") # {})
    /\ Events("accept") = {} => ray = ray0

\* An occlusion query returned after its epilogue accepted a hit.
C2_Witness ==
  /\ mode = "occluded"
  /\ pc = "done"
  /\ Events("accept") # {}
  /\ ray.geomID # ray0.geomID

\* C3: in an occlusion query the acceptance of a hit is the last event: the
\* query has returned, and no stack entry is popped, no node box-tested and
\* no kernel called (the second triangles of the same batch included) after
\* it.
C3_OcclusionStopsAtFirstAccept ==
  mode = "occluded" =>
    \A i \in Events("accept") : i = Len(log) /\ pc = "done"

\* An occlusion query of the 4-wide build returned on a hit of the first
\* triangles of a batch while the stack held an entry it would have visited.
C3_Witness ==
  /\ mode = "occluded"
  /\ ~avx
  /\ pc = "done"
  /\ log # <<>>
  /\ log[Len(log)] = <<"accept", cur, 1>>
  /\ stack # <<>>
  /\ RatLess(stack[Len(stack)].tNear, ray.tfar)

\* The value of tfar each kernel call of the query read is at most the value
\* the call before it read, and the ray's tfar is at most all of them.
TfarChain ==
  \A n \in 1..Len(kout.calls) :
    /\ RatLeq(ray.tfar, kout.calls[n].at.tfar)
    /\ n > 1 => RatLeq(kout.calls[n].at.tfar, kout.calls[n - 1].at.tfar)

\* C4: in every state of a nearest-hit query tnear <= tfar, and no step of
\* the query (a kernel call inside a leaf visit included) makes tfar larger.
C4_TfarOnlyShrinks ==
  /\ [](mode = "intersect" => RatLeq(ray.tnear, ray.tfar) /\ TfarChain)
  /\ [][(mode = "intersect" /\ run' = run) => RatLeq(ray'.tfar, ray.tfar)]_vars

\* A nearest-hit query accepted a hit when an earlier hit had already shrunk
\* tfar, and shrank it again.
C4_Witness ==
  /\ mode = "intersect"
  /\ pc = "done"
  /\ \E n \in 1..Len(kout.calls) :
       /\ kout.calls[n].ret
       /\ kout.calls[n].at.tfar # ray0.tfar
       /\ RatLess(ray.tfar, kout.calls[n].at.tfar)

\* C5: every lane a kernel hands to the epilogue as valid has absDen > 0 and
\* its distance t = T/absDen lies in [tnear, tfar] of the ray as it was
\* when the kernel call read it; in the single-ray, packet and k-th-ray paths.
C5_HitInsideInterval ==
  \A n \in 1..Len(kout.calls) :
    \A l \in kout.calls[n].valid :
      LET c == kout.calls[n]
          t == Finalised(c, l).vt
      IN  /\ c.hit[l].absDen > 0
          /\ t = <<c.hit[l].T, c.hit[l].absDen>>
          /\ RatLeq(RayAt(c, l).tnear, t)
          /\ RatLeq(t, RayAt(c, l).tfar)

\* A second kernel call of one intersect hands a hit to the epilogue after
\* the first call's hit has shrunk tfar.
C5_Witness ==
  /\ kop = "intersect1"
  /\ Len(kout.calls) = 2
  /\ kout.calls[1].ret
  /\ kout.calls[2].valid # {}
  /\ kout.calls[2].at.tfar # ray0.tfar

\* C6: when an occlusion query reported a hit, the nearest-hit query run
\* next on a copy of the same ray in the same structure, build and filter
\* ends with a valid geometry id.
C6_OccludedImpliesIntersectHit ==
  (run > 1 /\ mode = "intersect" /\ pc = "done" /\ first.mode = "occluded"
     /\ first.ray.geomID # INVALID)
    => ray.geomID # INVALID

\* An occlusion query reported a hit under a filter that rejects a geometry,
\* and the nearest-hit query after it has returned.
C6_Witness ==
  /\ run > 1
  /\ mode = "intersect"
  /\ pc = "done"
  /\ first.mode = "occluded"
  /\ first.ray.geomID # INVALID
  /\ filterRej # {}
  /\ ray.geomID # INVALID

C9_CullingOnlyDropsBackFaces ==
  LET quad == Batches[kbatch]
  IN  /\ \A second \in BOOLEAN :
           LET on  == MoellerTrumboreIntersectorQuad1(TRUE, ray, Tri44(quad, second), 1..M)
               off == MoellerTrumboreIntersectorQuad1(FALSE, ray, Tri44(quad, second), 1..M)
           IN  on.valid = {i \in off.valid : off.den[i] > 0}
      /\ \A i \in 1..M :
           LET on  == intersectK(TRUE, validi, rayK, quad.v0[i], quad.v1[i], quad.v3[i], FALSE)
               off == intersectK(FALSE, validi, rayK, quad.v0[i], quad.v1[i], quad.v3[i], FALSE)
           IN  on.valid = {k \in off.valid : off.den[k] > 0}
      /\ \A k \in 1..K :
           LET on  == intersectKth(TRUE, rayK, k, Tri48(quad), 1..(2 * M))
               off == intersectKth(FALSE, rayK, k, Tri48(quad), 1..(2 * M))
           IN  on.valid = {i \in off.valid : off.den[i] > 0}

\* The culling build ran the single-ray kernel on a batch that holds a
\* front-facing hit, which it handed on, and a back-facing hit, which it
\* dropped and the other build hands on.
C9_Witness ==
  /\ cull
  /\ kop = "intersect1"
  /\ LET off == MoellerTrumboreIntersectorQuad1(FALSE, ray0, Tri44(Batches[kbatch], FALSE),
                                                1..M)
     IN  /\ \E i \in off.valid : off.den[i] < 0 /\ i \notin kout.calls[1].valid
         /\ \E i \in off.valid : off.den[i] > 0 /\ i \in kout.calls[1].valid

\* 1 - x for the quotient x = n/d.
OneMinus(x) == <<x[2] - x[1], x[2]>>

\* The barycentrics of a lane before the remap: u = U/absDen, v = V/absDen.
RawU(h) == <<h.U, h.absDen>>
RawV(h) == <<h.V, h.absDen>>

\* C10 as stated: every finalised lane of the second triangle reports
\* (1-v, 1-u) and every lane of the first triangle reports (u, v), in
\* QuadHitM::finalize of either build and in QuadHitK::operator().
C10_RemapIsOneMinusVOneMinusU ==
  \A n \in 1..Len(kout.calls) :
    \A l \in kout.calls[n].valid :
      LET h == kout.calls[n].hit[l]
          f == Finalised(kout.calls[n], l)
      IN  IF h.flags
          THEN RatEq(f.vu, OneMinus(RawV(h))) /\ RatEq(f.vv, OneMinus(RawU(h)))
          ELSE RatEq(f.vu, RawU(h)) /\ RatEq(f.vv, RawV(h))

\* C10, amended: a lane of the first triangle reports (u, v); a lane of the
\* second triangle reports (1-v, 1-u) in QuadHitM::finalize built with
\* __AVX__, and (1-u, 1-v) in QuadHitM::finalize built without it and in
\* QuadHitK::operator().
C10_RemapPerVariant ==
  \A n \in 1..Len(kout.calls) :
    \A l \in kout.calls[n].valid :
      LET h == kout.calls[n].hit[l]
          f == Finalised(kout.calls[n], l)
      IN  IF ~h.flags
          THEN f.vu = RawU(h) /\ f.vv = RawV(h)
          ELSE IF avx /\ ~PacketOp
          THEN f.vu = OneMinus(RawV(h)) /\ f.vv = OneMinus(RawU(h))
          ELSE f.vu = OneMinus(RawU(h)) /\ f.vv = OneMinus(RawV(h))

\* The build without __AVX__ wrote the hit of a second-triangle lane with
\* u # v to the ray, as (1-u, 1-v).
C10_Witness ==
  /\ ~avx
  /\ kop = "intersect1"
  /\ Len(kout.calls) = 2
  /\ kout.calls[2].lane # 0
  /\ LET h == kout.calls[2].hit[kout.calls[2].lane]
     IN  /\ h.flags
         /\ h.U # h.V
         /\ ray.u = OneMinus(RawU(h))
         /\ ray.v = OneMinus(RawV(h))

-----------------------------------------------------------------------------
(* Quad-diagonal continuity *)

\* The lanes the kernel calls of the operation handed to an epilogue: call i
\* of kout.calls, lane l of its mask.
Reports == {x \in (1..Len(kout.calls)) \X (1..(2 * M)) : x[2] \in kout.calls[x[1]].valid}

\* The quad of the batch and the ray of the packet a report is about.
ReportQuad(x) == IF PacketOp THEN kout.calls[x[1]].index ELSE LaneQuad(x[2])

ReportRay(x) == IF PacketOp THEN x[2] ELSE 0

ReportHit(x) == Finalised(kout.calls[x[1]], x[2])

ReportFlag(x) == kout.calls[x[1]].hit[x[2]].flags

\* Two reports of the two triangles of one quad for one ray: the ray struck
\* the diagonal the triangles share.
OnDiagonal(a, b) ==
  /\ ReportQuad(a) = ReportQuad(b)
  /\ ReportRay(a) = ReportRay(b)
  /\ ~ReportFlag(a)
  /\ ReportFlag(b)

InUnit(q) == RatLeq(<<0, 1>>, q) /\ RatLeq(q, <<1, 1>>)

SameUV(a, b) ==
  /\ RatEq(ReportHit(a).vu, ReportHit(b).vu)
  /\ RatEq(ReportHit(a).vv, ReportHit(b).vv)

\* Every report has (u, v) in the unit square, and the two triangles of a
\* quad report the same (u, v) for a ray that struck their diagonal.
DiagonalContinuity ==
  /\ \A a \in Reports : InUnit(ReportHit(a).vu) /\ InUnit(ReportHit(a).vv)
  /\ \A a, b \in Reports : OnDiagonal(a, b) => SameUV(a, b)

\* The ray of Scenario A on the enlarged unit quad, and the ray the
\* operation answered in.
ScenarioA == Ray(<<2, 2, 3>>, <<0, 0, -1>>, <<0, 1>>, PosInf)

Answer == IF kop \in {"intersectK", "intersectKth"} THEN rayK[1] ELSE ray

\* Scenario A: the nearest-hit operations answer t = 1 (4 on the enlarged
\* quad), u = v = 1/2 and a normal along z.
ScenarioAHit ==
  (/\ kop \in {"intersect1", "intersect1_8", "intersectK", "intersectKth"}
   /\ kbatch = 7
   /\ ray0 = ScenarioA
   /\ 1 \in validi \/ ~PacketOp
   /\ kop = "intersectKth" => validi = {1}
   /\ filterRej = {})
  => /\ RatEq(Answer.tfar, <<4, 1>>)
     /\ RatEq(Answer.u, <<1, 2>>)
     /\ RatEq(Answer.v, <<1, 2>>)
     /\ Answer.Ng[1] = 0 /\ Answer.Ng[2] = 0 /\ Answer.Ng[3] # 0

\* C11 as stated: in every intersector variant a ray that strikes the shared
\* diagonal of a planar quad is reported with (u, v) in the unit square and
\* the same (u, v) by both triangles, and Scenario A gives t = 1,
\* u = v = 1/2 and a normal along z.
C11_DiagonalContinuity == DiagonalContinuity /\ ScenarioAHit

\* C11 outside the 4-wide path of a build with __AVX__: there the statement
\* holds.
C11_ContinuityOutsideAvx4Wide ==
  ~(avx /\ kop \in {"intersect1", "occluded1"}) => C11_DiagonalContinuity

\* The 4-wide path of a build with __AVX__ handed both triangles of a quad to
\* the epilogue for one ray, with different (u, v).
C11_Witness ==
  /\ avx
  /\ kop \in {"intersect1", "occluded1"}
  /\ \E a, b \in Reports : OnDiagonal(a, b) /\ ~SameUV(a, b)

\* Both triangles of a quad reported a ray on their diagonal away from its
\* middle with the same (u, v), in a build without __AVX__.
C11_ContinuousWitness ==
  /\ ~avx
  /\ \E a, b \in Reports :
       /\ OnDiagonal(a, b)
       /\ SameUV(a, b)
       /\ ~RatEq(ReportHit(a).vu, ReportHit(a).vv)

-----------------------------------------------------------------------------
(* Leaves a nearest-hit query evaluates *)

\* The leaves whose batch was handed to the primitive kernel, and the one
\* handed to it first.
LeavesEvaluated == {log[i][2] : i \in Events("prim")}

FirstLeaf == log[Min(Events("prim"))][2]

\* The root of the structure is an internal node with three children, all
\* of them leaves.
ThreeLeafRoot(s) ==
  /\ ~Scenes[s][1].leaf
  /\ Len(Scenes[s][1].kids) = 3
  /\ \A i \in 1..3 : Scenes[s][Scenes[s][1].kids[i]].leaf

\* A nearest-hit query on such a structure has returned, and of all leaves
\* only the one evaluated first holds a primitive the ray intersects.
OnlyNearestLeafHit ==
  /\ mode = "intersect"
  /\ pc = "done"
  /\ ThreeLeafRoot(scene)
  /\ Events("prim") # {}
  /\ BatchHits(ray0, Scenes[scene][FirstLeaf].quad) # {}
  /\ \A l \in Leaves(scene, 1) \ {FirstLeaf} : BatchHits(ray0, Scenes[scene][l].quad) = {}

\* C12 as stated: then the primitives of exactly one leaf are evaluated.
C12_OnlyOneLeafEvaluated == OnlyNearestLeafHit => LeavesEvaluated = {FirstLeaf}

\* The box test of leaf l for the ray as it was handed in.
LeafBox(l) == BoxTest(ray0, Bounds(scene, l))

\* C12, amended: then a farther leaf is evaluated exactly when the ray
\* enters its box before the distance of the hit found in the nearest leaf;
\* a leaf whose box is missed or entered at or behind that hit is not.
C12_FartherLeafEvaluatedIffEnteredBeforeHit ==
  OnlyNearestLeafHit =>
    \A l \in Leaves(scene, 1) \ {FirstLeaf} :
      l \in LeavesEvaluated <=> (LeafBox(l).valid /\ RatLess(LeafBox(l).tNear, ray.tfar))

\* The query evaluated the nearest leaf and a second leaf whose box the ray
\* entered before the hit, and discarded the third.
C12_Witness ==
  /\ OnlyNearestLeafHit
  /\ Cardinality(LeavesEvaluated) = 2
  /\ Events("discard") # {}
  /\ ray.geomID # INVALID

-----------------------------------------------------------------------------
(* Termination *)

\* The visits of the query so far: the box test of an internal node and the
\* first kernel call of a leaf.
Visits ==
  {i \in 1..Len(log) : log[i][1] = "box" \/ (log[i][1] = "prim" /\ log[i][3] = 1)}

NoNodeTwice == \A i, j \in Visits : log[i][2] = log[j][2] => i = j

Running == pc \in {"descend", "leaf", "pop"}

\* C13: a query visits no node twice, and every query that was entered
\* returns: from every state of a running query a state is reached where it
\* is done (the stack is empty, or an occlusion query accepted a hit).
C13_QueryTerminates ==
  /\ [](NoNodeTwice /\ (pc = "done" => (stack = <<>> \/ (mode = "occluded" /\ kout.ret))))
  /\ (Running ~> pc = "done")

\* A nearest-hit query returned with its stack empty after visiting several
\* nodes, and the occlusion query after it returned early with entries left
\* on its stack.
C13_Witness ==
  /\ run = 2
  /\ first.mode = "intersect"
  /\ mode = "occluded"
  /\ pc = "done"
  /\ stack # <<>>
  /\ Cardinality(Visits) > 1

-----------------------------------------------------------------------------
(* Stack capacity *)

\* The number of children of the widest internal node of structure s.
Fanout(s) ==
  Max({Len(Scenes[s][n].kids) : n \in 1..Len(Scenes[s])})

\* C14: in a structure of depth at most maxDepth whose nodes have at most 4
\* children, the stack of a query never holds more than stackSize entries.
C14_StackWithinStackSize ==
  (Depth(scene, 1) <= maxDepth /\ Fanout(scene) <= 4) => Len(stack) <= stackSize

\* A query in a structure of the full depth deferred three siblings on
\* every level.
C14_Witness ==
  /\ Depth(scene, 1) = maxDepth
  /\ Fanout(scene) = 4
  /\ pc = "leaf"
  /\ Len(stack) = 3 * maxDepth

-----------------------------------------------------------------------------
(* Filter invocations *)

\* The leaf whose visit made kernel call j of the query (0 when the
\* operation was applied to a batch outside a traversal).
LeafOfCall(j) ==
  IF log = <<>> THEN 0
  ELSE log[CHOOSE i \in Events("prim") :
             Cardinality({x \in Events("prim") : x <= i}) = j][2]

\* The invocations of the filter: for a single-ray call, position p of the
\* lanes it showed to the filter; for a packet call, the ray lane p shown.
FilterInvocations ==
  {x \in (1..Len(kout.calls)) \X (1..(2 * M)) :
     IF PacketOp THEN x[2] \in kout.calls[x[1]].filt
     ELSE x[2] <= Len(kout.calls[x[1]].filt)}

\* The triangle (leaf, quad of the batch, first or second triangle) and the
\* ray an invocation is about.
FilterTriangle(x) ==
  IF PacketOp
  THEN <<0, kout.calls[x[1]].index, kout.calls[x[1]].hit[x[2]].flags, x[2]>>
  ELSE <<LeafOfCall(x[1]), LaneQuad(kout.calls[x[1]].filt[x[2]]),
         kout.calls[x[1]].hit[kout.calls[x[1]].filt[x[2]]].flags, 0>>

-----------------------------------------------------------------------------
(* Rays parallel to a triangle's plane *)

\* The lanes of kernel call c whose den is zero.
DenZeroLanes(c) == {l \in DOMAIN c.den : c.den[l] = 0}

\* The lanes call c showed to the filter.
FilterLanes(c) == IF PacketOp THEN c.filt ELSE {c.filt[p] : p \in 1..Len(c.filt)}

\* The ray of Scenario B on the enlarged unit quad: parallel to its plane.
ScenarioB == Ray(<<2, 2, 3>>, <<1, 0, 0>>, <<0, 1>>, PosInf)

\* Scenario B: no operation reports a hit for that ray.
ScenarioBNoHit ==
  (kop # "none" /\ kbatch = 7 /\ ray0 = ScenarioB /\ (PacketOp => 1 \in validi)
   /\ (kop \in {"intersectKth", "occludedKth"} => validi = {1}))
  => /\ ray = ray0
     /\ rayK[1] = rayK0[1]
     /\ IF kop = "occludedK" THEN 1 \notin kout.ret
        ELSE IF kop = "intersectK" THEN TRUE
        ELSE ~kout.ret

\* No lane with den = 0 is in the mask a kernel hands to the epilogue or is
\* shown to the filter.
DenZeroNeverValid ==
  \A j \in 1..Len(kout.calls) :
    DenZeroLanes(kout.calls[j]) \cap (kout.calls[j].valid \cup FilterLanes(kout.calls[j])) = {}

\* finalize() and operator() divide every lane of the hit by absDen, so a
\* lane is divided when the epilogue is reached: when the mask of its call
\* is not empty.
DenZeroNeverDivided ==
  \A j \in 1..Len(kout.calls) :
    kout.calls[j].valid # {} => DenZeroLanes(kout.calls[j]) = {}

\* C16 as stated: a lane with den = 0 is never valid and never reaches the
\* epilogue or its division by absDen, and Scenario B reports no hit.
C16_DenZeroNeverReachesDivision ==
  DenZeroNeverValid /\ DenZeroNeverDivided /\ ScenarioBNoHit

\* C16, amended: a lane with den = 0 is never in the mask handed to the
\* epilogue and never shown to the filter, the ray is never written from such
\* a lane, and Scenario B reports no hit.
C16_DenZeroNeverValid ==
  /\ DenZeroNeverValid
  /\ ScenarioBNoHit
  /\ \A j \in 1..Len(kout.calls) :
       (~PacketOp /\ kout.calls[j].lane # 0) => kout.calls[j].den[kout.calls[j].lane] # 0

\* A call handed the epilogue a hit record with a valid lane and a lane of
\* den = 0 beside it, and the valid lane was written to the ray.
C16_Witness ==
  /\ kop = "intersect1"
  /\ ray.geomID # INVALID
  /\ \E j \in 1..Len(kout.calls) :
       /\ kout.calls[j].valid # {}
       /\ DenZeroLanes(kout.calls[j]) # {}

-----------------------------------------------------------------------------
(* The three kernels on the same ray and triangle *)

\* The triangles the 4-wide and packet paths hand to the kernels for the
\* valid quads of the batch: (v0,v1,v3) and (v2,v3,v1).
BatchTriangles ==
  UNION {{<<Batches[kbatch].v0[i], Batches[kbatch].v1[i], Batches[kbatch].v3[i]>>,
          <<Batches[kbatch].v2[i], Batches[kbatch].v3[i], Batches[kbatch].v1[i]>>} :
         i \in {n \in 1..M : QuadMv_valid(Batches[kbatch], n)}}

OneTri(t) == <<[v0 |-> t[1], v1 |-> t[2], v2 |-> t[3], flags |-> FALSE]>>

\* The decision of each kernel on ray r and triangle t alone.
Accepts1(r, t) == 1 \in MoellerTrumboreIntersectorQuad1(cull, r, OneTri(t), {1}).valid
AcceptsK(r, t) ==
  1 \in intersectK(cull, {1}, [k \in 1..K |-> r], t[1], t[2], t[3], FALSE).valid
AcceptsKth(r, t) ==
  1 \in intersectKth(cull, [k \in 1..K |-> r], 1, OneTri(t), {1}).valid

\* T of ray r and triangle t equals absDen*tnear or absDen*tfar.
OnIntervalEnd(r, t) ==
  \E l \in {TriLane(r.org, r.dir, t[1], t[2], t[3], FALSE)} :
    \/ l.hit.T * r.tnear[2] = l.hit.absDen * r.tnear[1]
    \/ l.hit.T * r.tfar[2] = l.hit.absDen * r.tfar[1]

\* C17 as stated: the single-ray, packet and k-th-ray kernels accept the
\* same ray/triangle pairs, the ends of the ray's interval included.
C17_KernelsDecideIdentically ==
  kop # "none" =>
    \A t \in BatchTriangles :
      /\ Accepts1(ray0, t) = AcceptsK(ray0, t)
      /\ Accepts1(ray0, t) = AcceptsKth(ray0, t)

\* C17, what holds: the single-ray and k-th-ray kernels agree everywhere;
\* the packet kernel accepts whatever they accept and differs from them only
\* for T on an end of the interval, which it accepts and they reject.
C17_KernelsDifferOnlyAtEnds ==
  kop # "none" =>
    \A t \in BatchTriangles :
      /\ Accepts1(ray0, t) = AcceptsKth(ray0, t)
      /\ Accepts1(ray0, t) => AcceptsK(ray0, t)
      /\ (AcceptsK(ray0, t) /\ ~Accepts1(ray0, t)) => OnIntervalEnd(ray0, t)

\* The packet operation wrote a hit to the ray of lane 1 on a triangle the
\* single-ray kernel rejects for that ray.
C17_Witness ==
  /\ kop = "intersectK"
  /\ 1 \in validi
  /\ rayK0[1] = ray0
  /\ rayK[1].geomID # INVALID
  /\ \E t \in BatchTriangles : AcceptsK(ray0, t) /\ ~Accepts1(ray0, t)

-----------------------------------------------------------------------------
(* Sort harness: each StackItem::sort applied once to its arguments *)

\* The tNear values of the items handed to a sort: 0..MaxSortT and +inf.
SortTNears == {<<n, 1>> : n \in 0..MaxSortT} \cup {PosInf}

\* Arguments s1, s2, ... of a sort: item i has ref i and tFar 10+i, so that
\* every item can be told from the others whatever its tNear is.
SortArgs(n) ==
  {[i \in 1..n |-> StackItem(i, t[i], <<10 + i, 1>>)] : t \in [1..n -> SortTNears]}

SInit ==
  /\ cull = FALSE /\ avx = TRUE /\ filterRej = {}
  /\ TravIdle
  /\ ray = Ray(<<0, 0, 0>>, <<0, 0, -1>>, <<0, 1>>, PosInf)
  /\ ray0 = ray
  /\ kbatch = 1
  /\ rayK = [k \in 1..K |-> ray]
  /\ rayK0 = rayK
  /\ validi = {}
  /\ kop = "none"
  /\ kout = [ret |-> FALSE, calls |-> <<>>]
  /\ thr = <<>>
  /\ sortIn \in SortArgs(2) \cup SortArgs(3) \cup SortArgs(4)
  /\ sortOut = <<>>
  /\ img = <<>>

SFrame == UNCHANGED <<cull, avx, filterRej, travVars, kernVars, thr, sortIn, img>>

\* sort(s1, s2)
S_sort2 ==
  /\ sortOut = <<>> /\ Len(sortIn) = 2
  /\ sortOut' = sort2(sortIn)
  /\ SFrame

\* sort(s1, s2, s3)
S_sort3 ==
  /\ sortOut = <<>> /\ Len(sortIn) = 3
  /\ sortOut' = sort3(sortIn)
  /\ SFrame

\* sort(s1, s2, s3, s4)
S_sort4 ==
  /\ sortOut = <<>> /\ Len(sortIn) = 4
  /\ sortOut' = sort4(sortIn)
  /\ SFrame

SNext ==
  \/ S_sort2
  \/ S_sort3
  \/ S_sort4

SpecSort == SInit /\ [][SNext]_vars

\* s1.tNear <= s2.tNear <= ...
Ascending(s) == \A i \in 1..(Len(s) - 1) : RatLeq(s[i].tNear, s[i + 1].tNear)

\* b holds the items of a, each whole, in some order.
PermutationOf(a, b) ==
  /\ Len(a) = Len(b)
  /\ \E f \in [1..Len(a) -> 1..Len(a)] :
       /\ \A i, j \in 1..Len(a) : f[i] = f[j] => i = j
       /\ \A i \in 1..Len(a) : b[i] = a[f[i]]

\* C19: after a 2-, 3- or 4-item sort the arguments are in ascending tNear
\* order and are the items handed in, each with its own ref, tNear and tFar.
C19_SortAscendingPermutation ==
  sortOut # <<>> => (Ascending(sortOut) /\ PermutationOf(sortIn, sortOut))

\* A 4-item sort that moved every item and had a tie in tNear to order.
C19_Witness ==
  /\ Len(sortOut) = 4
  /\ \A i \in 1..4 : sortOut[i] # sortIn[i]
  /\ \E i, j \in 1..4 : i # j /\ sortIn[i].tNear = sortIn[j].tNear
  /\ ~Ascending(sortIn)

-----------------------------------------------------------------------------
(* The step at an internal node *)

\* The children of node n whose box test against ray r is valid.
SurvivingKids(n, r) ==
  {Scenes[scene][n].kids[i] :
     i \in {j \in 1..Len(Scenes[scene][n].kids) : intersectBox(scene, n, r)[j].valid}}

\* tNear of child k of node n for ray r.
KidTNear(n, r, k) ==
  intersectBox(scene, n, r)[CHOOSE j \in 1..Len(Scenes[scene][n].kids) :
                              Scenes[scene][n].kids[j] = k].tNear

\* The refs of the items stack b holds on top of stack a.
AddedRefs(a, b) == {b[i].ref : i \in (Len(a) + 1)..Len(b)}

\* The step taken at internal node cur: with no survivor it goes to pop and
\* leaves the stack alone; else it goes to a survivor of smallest tNear and
\* adds one item for each other survivor, and for no other node.
DescendStep ==
  pc = "descend" =>
    IF SurvivingKids(cur, ray) = {}
    THEN pc' = "pop" /\ stack' = stack /\ cur' = cur
    ELSE /\ cur' \in SurvivingKids(cur, ray)
         /\ pc' = Arrive(scene, cur')
         /\ \A k \in SurvivingKids(cur, ray) :
              RatLeq(KidTNear(cur, ray, cur'), KidTNear(cur, ray, k))
         /\ Len(stack') = Len(stack) + Cardinality(SurvivingKids(cur, ray)) - 1
         /\ SubSeq(stack', 1, Len(stack)) = stack
         /\ AddedRefs(stack, stack') = SurvivingKids(cur, ray) \ {cur'}

\* C20: at an internal node the traversal goes on to the survivor of smallest
\* tNear and pushes exactly the other survivors; with no survivor it goes to
\* pop.
C20_NearestVisitedOthersPushed == [][DescendStep]_vars

\* The traversal has just left an internal node of which at least two
\* children survived and at least one failed, for the nearest survivor.
C20_Witness ==
  /\ log # <<>>
  /\ \E n \in 1..Len(Scenes[scene]) :
       /\ log[Len(log)] = <<"box", n>>
       /\ Cardinality(SurvivingKids(n, ray)) >= 2
       /\ Cardinality(SurvivingKids(n, ray)) < Len(Scenes[scene][n].kids)
       /\ cur \in SurvivingKids(n, ray)
       /\ \E k \in SurvivingKids(n, ray) :
            RatLess(KidTNear(n, ray, cur), KidTNear(n, ray, k))
       /\ stack # <<>>

\* The traversal has just left an internal node none of whose children
\* survived.
C20_NoSurvivorWitness ==
  /\ log # <<>>
  /\ pc = "pop"
  /\ \E n \in 1..Len(Scenes[scene]) :
       log[Len(log)] = <<"box", n>> /\ SurvivingKids(n, ray) = {}

-----------------------------------------------------------------------------
(* Concurrent queries on one acceleration structure *)

Threads == 1..NThreads

\* The ray thread t owns: a primary ray of its own tile.
ThreadRay(t) ==
  Ray(<<((t - 1) % 3) + 1, 2, 3>>, <<0, 0, -1>>, <<0, 1>>, PosInf)

\* The structures the threads share.
ThreadScenes == {s \in 1..Len(Scenes) : Depth(s, 1) <= maxDepth}

\* What a query holds: its ray (by reference, the caller's), the node it is
\* at and its own stack.
QIdle(r) ==
  [mode |-> "none", ray |-> r, ray0 |-> r, cur |-> 0, stack |-> <<>>, pc |-> "idle"]

\* Entry of intersect (m = "intersect") or occluded (m = "occluded").
QStart(s, q, m) ==
  [q EXCEPT !.mode = m, !.ray = q.ray0, !.cur = 1, !.stack = <<>>, !.pc = Arrive(s, 1)]

\* The step at an internal node, sv being the sorted survivors.
QDescendTo(s, q, sv) ==
  IF sv = <<>> THEN [q EXCEPT !.pc = "pop"]
  ELSE [q EXCEPT !.cur = sv[1].ref, !.pc = Arrive(s, sv[1].ref),
                 !.stack = q.stack \o Reverse(Tail(sv))]

QDescend(s, q) ==
  QDescendTo(s, q, Sorted(Survivors(Scenes[s][q.cur].kids,
                                    intersectBox(s, q.cur, q.ray), 1)))

\* The step at a leaf, out being what the primitive kernel produced.
QAfterLeaf(q, out) ==
  IF q.mode = "occluded" /\ out.ret
  THEN [q EXCEPT !.ray = OccludedReport(out.ray), !.pc = "done"]
  ELSE [q EXCEPT !.ray = out.ray, !.pc = "pop"]

QAtLeaf(s, q) ==
  QAfterLeaf(q, IF q.mode = "intersect"
                THEN LeafIntersect(q.ray, Scenes[s][q.cur].quad)
                ELSE LeafOccluded(q.ray, Scenes[s][q.cur].quad))

\* The pop of the item top from a stack that holds it last.
QPopItem(s, q, top) ==
  IF RatLeq(q.ray.tfar, top.tNear)
  THEN [q EXCEPT !.stack = SubSeq(q.stack, 1, Len(q.stack) - 1)]
  ELSE [q EXCEPT !.stack = SubSeq(q.stack, 1, Len(q.stack) - 1),
                 !.cur = top.ref, !.pc = Arrive(s, top.ref)]

QPop(s, q) == QPopItem(s, q, q.stack[Len(q.stack)])

QDone(q) == [q EXCEPT !.pc = "done"]

\* One step of a query that has started and not returned.
QStep(s, q) ==
  IF q.pc = "descend" THEN QDescend(s, q)
  ELSE IF q.pc = "leaf" THEN QAtLeaf(s, q)
  ELSE IF q.stack # <<>> THEN QPop(s, q)
  ELSE QDone(q)

\* The query run from q to its return with nothing else running.
RECURSIVE QAlone(_, _)
QAlone(s, q) == IF q.pc = "done" THEN q ELSE QAlone(s, QStep(s, q))

ThrInit ==
  /\ BuildInit
  /\ scene \in ThreadScenes
  /\ thr = [t \in Threads |-> QIdle(ThreadRay(t))]
  /\ ray = ThreadRay(1)
  /\ ray0 = ray
  /\ mode = "none" /\ cur = 0 /\ stack = <<>> /\ pc = "idle"
  /\ log = <<>> /\ run = 0 /\ first = <<>>
  /\ kbatch = 1
  /\ rayK = [k \in 1..K |-> ray]
  /\ rayK0 = rayK
  /\ validi = {}
  /\ kop = "none"
  /\ kout = [ret |-> FALSE, calls |-> <<>>]
  /\ sortIn = <<>> /\ sortOut = <<>>
  /\ img = <<>>

ThrFrame == UNCHANGED <<cull, avx, filterRej, travVars, kernVars, sortIn, sortOut, img>>

\* Thread t calls intersect or occluded with its ray.
T_Start(t) ==
  /\ thr[t].pc = "idle"
  /\ \E m \in {"intersect", "occluded"} : thr' = [thr EXCEPT ![t] = QStart(scene, thr[t], m)]
  /\ ThrFrame

T_Descend(t) ==
  /\ thr[t].pc = "descend"
  /\ thr' = [thr EXCEPT ![t] = QDescend(scene, thr[t])]
  /\ ThrFrame

\* The leaf step with one ray for all threads: what thread t's kernel
\* leaves in the ray is what every thread finds in its ray (a changed copy
\* of T_AtLeaf).
T_AtLeaf_oneRayForAll(t) ==
  /\ thr[t].pc = "leaf"
  /\ thr' = [u \in Threads |->
              IF u = t THEN QAtLeaf(scene, thr[t])
              ELSE [thr[u] EXCEPT !.ray = QAtLeaf(scene, thr[t]).ray]]
  /\ ThrFrame

T_AtLeaf(t) ==
  /\ thr[t].pc = "leaf"
  /\ thr' = [thr EXCEPT ![t] = QAtLeaf(scene, thr[t])]
  /\ ThrFrame

T_Pop(t) ==
  /\ thr[t].pc = "pop"
  /\ thr[t].stack # <<>>
  /\ thr' = [thr EXCEPT ![t] = QPop(scene, thr[t])]
  /\ ThrFrame

T_Done(t) ==
  /\ thr[t].pc = "pop"
  /\ thr[t].stack = <<>>
  /\ thr' = [thr EXCEPT ![t] = QDone(thr[t])]
  /\ ThrFrame

ThrNext ==
  \/ \E t \in Threads : T_Start(t)
  \/ \E t \in Threads : T_Descend(t)
  \/ \E t \in Threads : T_AtLeaf(t)
  \/ \E t \in Threads : T_Pop(t)
  \/ \E t \in Threads : T_Done(t)

SpecThreads == ThrInit /\ [][ThrNext]_vars

\* A step changes the query state, ray included, of one thread at most, and
\* leaves the structure and the build alone.
StepIsLocal ==
  /\ \A t, u \in Threads : (thr'[t] # thr[t] /\ thr'[u] # thr[u]) => t = u
  /\ scene' = scene
  /\ <<cull, avx, filterRej>>' = <<cull, avx, filterRej>>

\* A query that has returned left in its ray what it leaves when it runs
\* with nothing else running.
SameAsAlone ==
  \A t \in Threads :
    thr[t].pc = "done" =>
      thr[t].ray = QAlone(scene, QStart(scene, QIdle(thr[t].ray0), thr[t].mode)).ray

-----------------------------------------------------------------------------
(* Pruning on pop *)

\* Node n and the nodes below it.
RECURSIVE Below(_, _)
Below(s, n) ==
  IF Scenes[s][n].leaf THEN {n}
  ELSE {n} \cup UNION {Below(s, Scenes[s][n].kids[i]) : i \in 1..Len(Scenes[s][n].kids)}

\* The nodes the query has box-tested or whose primitives it has evaluated.
Touched == {log[i][2] : i \in Events("box") \cup Events("prim")}

\* No node at or below a discarded entry has been box-tested or had a
\* primitive evaluated.
DiscardedNeverTouched ==
  \A i \in Events("discard") : Below(scene, log[i][2]) \cap Touched = {}

\* The step that pops the top entry: with tNear >= ray.tfar the entry is
\* dropped and the traversal stays where it is, with tNear < ray.tfar the
\* traversal goes to the entry's node.
PopStep ==
  (pc = "pop" /\ stack # <<>> /\ mode = "intersect") =>
    /\ stack' = SubSeq(stack, 1, Len(stack) - 1)
    /\ IF RatLeq(ray.tfar, stack[Len(stack)].tNear)
       THEN cur' = cur /\ pc' = "pop" /\ log' = Append(log, <<"discard", stack[Len(stack)].ref>>)
       ELSE cur' = stack[Len(stack)].ref /\ pc' = Arrive(scene, cur')

\* A visited node is box-tested or has its primitives evaluated by the step
\* that follows its pop.
ArrivedIsTouched ==
  (mode = "intersect" /\ pc \in {"descend", "leaf"}) =>
    cur \in Touched'

\* C21: in a nearest-hit query an entry popped with tNear >= ray.tfar is
\* discarded, no node at or below it is ever box-tested and no primitive
\* below it evaluated; an entry popped with tNear < ray.tfar is visited.
C21_DiscardOnPop ==
  /\ [](mode = "intersect" => DiscardedNeverTouched)
  /\ [][PopStep /\ ArrivedIsTouched]_vars

\* A nearest-hit query has returned after discarding an entry whose tNear was
\* equal to ray.tfar and after visiting another popped entry.
C21_Witness ==
  /\ mode = "intersect"
  /\ pc = "done"
  /\ Events("pop") # {}
  /\ \E i \in Events("discard") :
       RatEq(BoxTest(ray0, Bounds(scene, log[i][2])).tNear, ray.tfar)

-----------------------------------------------------------------------------
(* Frame of the nearest-hit epilogue *)

\* The single-ray nearest-hit operations.
NearestOp1 == kop \in {"intersect1", "intersect1_8"}

\* The ray as call j of the operation left it: the ray the next call read,
\* or the ray the operation returned.
RayAfter(j) == IF j < Len(kout.calls) THEN kout.calls[j + 1].at ELSE ray

\* The filter accepts the hit of lane l.
LaneAccepted(l) == FilterAccepts(Batches[kbatch].geomIDs[LaneQuad(l)])

\* Ray b is ray a with tfar, u, v, Ng, geomID and primID of lane l of call c,
\* and everything else as in a.
WrittenFrom(a, b, c, l) ==
  /\ b.tfar = Finalised(c, l).vt
  /\ b.u = Finalised(c, l).vu
  /\ b.v = Finalised(c, l).vv
  /\ b.Ng = Finalised(c, l).vNg
  /\ b.geomID = Batches[kbatch].geomIDs[LaneQuad(l)]
  /\ b.primID = Batches[kbatch].primIDs[LaneQuad(l)]
  /\ b.org = a.org /\ b.dir = a.dir /\ b.tnear = a.tnear

\* What call j did to the ray.
EpilogFrame(j) ==
  /\ kout.calls[j].ret <=> kout.calls[j].lane # 0
  /\ kout.calls[j].ret =>
       /\ kout.calls[j].lane \in kout.calls[j].valid
       /\ LaneAccepted(kout.calls[j].lane)
       /\ WrittenFrom(kout.calls[j].at, RayAfter(j), kout.calls[j], kout.calls[j].lane)
       /\ \A l \in kout.calls[j].valid :
            RatLess(Finalised(kout.calls[j], l).vt,
                    Finalised(kout.calls[j], kout.calls[j].lane).vt) => ~LaneAccepted(l)
  /\ ~kout.calls[j].ret => RayAfter(j) = kout.calls[j].at
  /\ (\A l \in kout.calls[j].valid : ~LaneAccepted(l)) => ~kout.calls[j].ret

-----------------------------------------------------------------------------
(* The mask the packet occluded operation returns *)

\* The lanes some call of the operation found occluded: the kernel marked
\* them valid on a triangle of a valid quad and the filter accepted the hit.
OccludedLanes == UNION {kout.calls[j].ret : j \in 1..Len(kout.calls)}

\* Every call was made on a valid quad with a ray still to decide, and
\* found occluded only rays it was handed, hit, and accepted by the filter.
OccludedKCalls ==
  \A j \in 1..Len(kout.calls) :
    /\ QuadMv_valid(Batches[kbatch], kout.calls[j].index)
    /\ kout.calls[j].valid0 # {}
    /\ kout.calls[j].valid0 \subseteq validi
    /\ kout.calls[j].valid \subseteq kout.calls[j].valid0
    /\ kout.calls[j].ret \subseteq kout.calls[j].valid
    /\ kout.calls[j].ret # {} => FilterAccepts(Batches[kbatch].geomIDs[kout.calls[j].index])
    /\ j > 1 => kout.calls[j].valid0 = kout.calls[j - 1].valid0 \ kout.calls[j - 1].ret

\* C23 as stated: a lane of the returned mask was active on entry and hit by
\* a valid quad, a lane inactive on entry is never in the mask, and no quad
\* is tested once every active lane is occluded.
C23_MaskOnlyActiveAndHit ==
  kop = "occludedK" =>
    /\ kout.ret \subseteq validi
    /\ kout.ret \subseteq OccludedLanes
    /\ OccludedKCalls

\* C23, amended: the returned mask is !valid0: every lane inactive on entry
\* together with the active lanes some valid quad occludes; among the active
\* lanes it marks exactly the occluded ones, and no quad is tested once every
\* active lane is occluded.
C23_MaskIsInactiveOrOccluded ==
  kop = "occludedK" =>
    /\ kout.ret = ((1..K) \ validi) \cup OccludedLanes
    /\ OccludedLanes \subseteq validi
    /\ OccludedKCalls

\* The operation was entered with an inactive lane, found its active lanes
\* occluded before the last valid quad of the batch, stopped there, and
\* returned a mask with the inactive lane set.
C23_Witness ==
  /\ kop = "occludedK"
  /\ validi # 1..K
  /\ OccludedLanes = validi
  /\ kout.ret = 1..K
  /\ \E i \in 1..M :
       /\ QuadMv_valid(Batches[kbatch], i)
       /\ \A j \in 1..Len(kout.calls) : kout.calls[j].index < i

-----------------------------------------------------------------------------
(* Renderer: the image cut into tiles, one task per tile *)

min(a, b) == IF a < b THEN a ELSE b

\* The end of a tile that is not clamped to the image (a changed copy of
\* TileEnd).
TileEnd_unclamped(lo, size, limit) == lo + size

\* x1 = min(x0+TILE_SIZE_X,width), y1 = min(y0+TILE_SIZE_Y,height)
TileEnd(lo, size, limit) == min(lo + size, limit)

\* numTilesX = (width+TILE_SIZE_X-1)/TILE_SIZE_X, and the same for Y
numTiles(n, size) == (n + size - 1) \div size

\* The pixel range [x0,x1) x [y0,y1) of task taskIndex.
TileRange(taskIndex, width, height, numTilesX) ==
  [x0 |-> (taskIndex - (taskIndex \div numTilesX) * numTilesX) * TILE_SIZE_X,
   x1 |-> TileEnd((taskIndex - (taskIndex \div numTilesX) * numTilesX) * TILE_SIZE_X,
                  TILE_SIZE_X, width),
   y0 |-> (taskIndex \div numTilesX) * TILE_SIZE_Y,
   y1 |-> TileEnd((taskIndex \div numTilesX) * TILE_SIZE_Y, TILE_SIZE_Y, height)]

\* for (int y = y0; y<y1; y++) for (int x = x0; x<x1; x++)
TilePixels(r) == {<<x, y>> : x \in r.x0..(r.x1 - 1), y \in r.y0..(r.y1 - 1)}

\* renderTileStandard: one ray per pixel of the tile (N of them), then one
\* write pixels[y*width+x] per pixel of the tile.
renderTileStandard(taskIndex, width, height, numTilesX) ==
  [N      |-> Cardinality(TilePixels(TileRange(taskIndex, width, height, numTilesX))),
   writes |-> {[task |-> taskIndex, x |-> p[1], y |-> p[2], index |-> p[2] * width + p[1]] :
                 p \in TilePixels(TileRange(taskIndex, width, height, numTilesX))}]

RInit ==
  /\ cull = FALSE /\ avx = TRUE /\ filterRej = {}
  /\ TravIdle
  /\ ray = Ray(<<0, 0, 0>>, <<0, 0, -1>>, <<0, 1>>, PosInf)
  /\ ray0 = ray
  /\ kbatch = 1
  /\ rayK = [k \in 1..K |-> ray]
  /\ rayK0 = rayK
  /\ validi = {}
  /\ kop = "none"
  /\ kout = [ret |-> FALSE, calls |-> <<>>]
  /\ thr = <<>>
  /\ sortIn = <<>> /\ sortOut = <<>>
  /\ \E w \in 0..MaxWidth, h \in 0..MaxHeight :
       img = [width |-> w, height |-> h, launched |-> FALSE, numTilesX |-> 0,
              numTilesY |-> 0, pending |-> {}, rays |-> <<>>, writes |-> {}]

RFrame == UNCHANGED <<cull, avx, filterRej, travVars, kernVars, thr, sortIn, sortOut>>

\* device_render: the tile counts, and one task launched per tile.
R_device_render ==
  /\ ~img.launched
  /\ img' = [img EXCEPT
               !.launched = TRUE,
               !.numTilesX = numTiles(img.width, TILE_SIZE_X),
               !.numTilesY = numTiles(img.height, TILE_SIZE_Y),
               !.pending = 0..(numTiles(img.width, TILE_SIZE_X)
                               * numTiles(img.height, TILE_SIZE_Y) - 1),
               !.rays = [t \in 0..(numTiles(img.width, TILE_SIZE_X)
                                   * numTiles(img.height, TILE_SIZE_Y) - 1) |-> -1]]
  /\ RFrame

\* One launched task runs renderTileTask, in any order with the others.
R_renderTileTask ==
  /\ img.launched
  /\ \E taskIndex \in img.pending :
       \E out \in {renderTileStandard(taskIndex, img.width, img.height, img.numTilesX)} :
         img' = [img EXCEPT !.pending = img.pending \ {taskIndex},
                            !.rays[taskIndex] = out.N,
                            !.writes = img.writes \cup out.writes]
  /\ RFrame

RNext ==
  \/ R_device_render
  \/ R_renderTileTask

SpecTiles == RInit /\ [][RNext]_vars

\* Every task has run.
AllTilesDone == img.launched /\ img.pending = {}

\* Every write is to a pixel of the image, at its index, inside the buffer.
WritesInside ==
  \A w \in img.writes :
    /\ 0 <= w.x /\ w.x < img.width
    /\ 0 <= w.y /\ w.y < img.height
    /\ 0 <= w.index /\ w.index <= img.width * img.height - 1

\* No pixel index is written twice, by one task or by two.
WritesDisjoint == \A a, b \in img.writes : a.index = b.index => a = b

\* Once every task has run, every pixel has been written.
WritesCover ==
  AllTilesDone =>
    \A x \in 0..(img.width - 1), y \in 0..(img.height - 1) :
      \E w \in img.writes : w.x = x /\ w.y = y /\ w.index = y * img.width + x

\* The rays a task generated fit its array of TILE_SIZE_X*TILE_SIZE_Y rays.
RaysFit ==
  img.launched => \A t \in DOMAIN img.rays : img.rays[t] <= TILE_SIZE_X * TILE_SIZE_Y

\* C24: the tile tasks of device_render together write every pixel of the
\* image exactly once, no two of them the same index, none outside the
\* buffer, and no task generates more rays than its ray array holds.
C24_TilesPartitionImage ==
  WritesInside /\ WritesDisjoint /\ WritesCover /\ RaysFit

\* Every task of an image whose width and height are no multiples of the
\* tile size has run: the last tile of each row and column is a partial one.
C24_Witness ==
  /\ AllTilesDone
  /\ img.width % TILE_SIZE_X # 0
  /\ img.height % TILE_SIZE_Y # 0
  /\ img.numTilesX > 1 /\ img.numTilesY > 1
  /\ Cardinality(img.writes) = img.width * img.height
  /\ \E t \in DOMAIN img.rays : img.rays[t] = TILE_SIZE_X * TILE_SIZE_Y
  /\ \E t \in DOMAIN img.rays : img.rays[t] > 0 /\ img.rays[t] < TILE_SIZE_X * TILE_SIZE_Y

=============================================================================
